---- MODULE Spec2Model ----
(***************************************************************************)
(* Model of the on-disk parameter store of selfdrive/common/params.cc.     *)
(*                                                                         *)
(* The store is a directory <root>/d holding one file per parameter; every *)
(* process links the same code and calls put / remove / get / readAll /    *)
(* clearAll.  One action of the model is one system call (or one group of  *)
(* calls whose intermediate states no other process can tell apart) of one *)
(* of these operations, so that every interleaving of the calls of         *)
(* concurrent processes is a behaviour of the model.                       *)
(*                                                                         *)
(* Files are inodes: a directory entry refers to an inode, a process that  *)
(* has a file open keeps the inode whatever happens to its name.  The      *)
(* inode a put is writing lives in tmpFile[p] while its descriptor is open *)
(* and is referred to as Ref(p); when the descriptor is closed the inode   *)
(* can no longer change and every reference is replaced by its value.      *)
(***************************************************************************)
EXTENDS Integers, Sequences, FiniteSets, TLC

\* ----------------------------------------------------------------- bounds
NumProcs == 3        \* processes that link the store
NumCallers == 2      \* those of them that call in Spec, SpecLock, SpecCrash, SpecClear
NumTmp == 2          \* temp names mkstemp can produce ("XXXXXX" patterns)
MaxCrashes == 1      \* kills / power losses in one behaviour (SpecCrash)
NumThreads == 2      \* threads of the process whose threads are modelled one by one
MaxSignals == 2      \* SIGINT / SIGTERM deliveries in one behaviour

Procs == 1..NumProcs
Callers == 1..NumCallers
TmpNames == 1..NumTmp
Threads == 1..NumThreads

\* ------------------------------------------------------------ key registry
\* Rows of the static table `keys`, and one name that is not in the table.
Registered == {"AthenadPid", "CurrentRoute", "DoUninstall"}
Names == Registered \cup {"Unlisted"}

Tags == {"PERSISTENT", "CLEAR_ON_MANAGER_START", "CLEAR_ON_PANDA_DISCONNECT",
         "CLEAR_ON_IGNITION_ON", "CLEAR_ON_IGNITION_OFF", "DONT_LOG"}

\* The category mask of a table row, as the set of bits that are or-ed.
keys ==
  [k \in Registered |->
     CASE k = "AthenadPid" -> {"PERSISTENT"}
       [] k = "CurrentRoute" -> {"CLEAR_ON_MANAGER_START", "CLEAR_ON_IGNITION_ON"}
       [] k = "DoUninstall" -> {"CLEAR_ON_MANAGER_START"}]

\* `type & key_type` of clearAll: non-zero iff the masks share a bit.
MaskAnd(type, key_type) == (type \cap key_type) # {}

\* ------------------------------------------------------------------ values
\* Byte payloads of put.  Two bytes each, so that a prefix is a torn value.
Payloads == {<<1, 1>>, <<2, 2>>}

Prefixes(t) == {SubSeq(t, 1, n) : n \in 0..Len(t)}

\* ------------------------------------------------------------------- files
NoFile == [t |-> "none"]
Ref(p) == [t |-> "open", p |-> p]
\* data: the bytes of the inode; synced: every byte of it was forced to stable
\* storage by fsync; lost (history): the put that created it was killed before
\* its rename.
NewFile == [t |-> "file", data |-> <<>>, synced |-> TRUE, lost |-> FALSE]

VARIABLES
  dirD,      \* root/d: name -> inode linked under it (NoFile: no entry)
  dirDisk,   \* the entries of root/d that are on stable storage
  rootTmp,   \* temp names in root: temp name -> inode linked under it
  flk,       \* flock state of root/.lock: process -> "none" | "sh" | "ex"
  pc,        \* position of every process
  arg,       \* the operation in progress and its arguments: [op, key, val, mask]
  tmpPath,   \* put: tmp_path, the temp name mkstemp filled in (0: none)
  tmpFile,   \* put: the inode behind tmp_fd while it is open
  result,    \* return value: [rc: status of put/remove, answer of checkKey
             \*   (1: true), val: string of get, map: mapping of readAll,
             \*   type: mask of getKeyType, cause (history): the call of put
             \*   or remove that failed, "" when none did, nolock (history):
             \*   FileLock::lock failed in this call]
  rd,        \* get: [file: inode opened, buf: bytes read so far]
  todo,      \* clearAll: rows of `keys` the loop has still to visit
  absval,    \* history: name -> the value last committed by rename / unlink
  lastMut,   \* history: name -> process whose rename/unlink changed it last
  acked,     \* history: name -> value of a put that returned success and
             \*          after whose rename the name was not changed
  cur,       \* history: gets whose name was not changed since they opened it,
             \*          readAll calls since whose start no name was changed
  seen,      \* history: values a get in progress may legitimately return
  snaps,     \* history: contents of root/d at the instants of a readAll
  model,     \* history: the name -> value map obtained by applying put,
             \*          remove and clearAll one at a time, in the order in
             \*          which they took the exclusive lock
  touched,   \* history: processes a step of whose call in progress changed
             \*          the value that readers see for some name
  killed,    \* history: process -> how its last operation was killed
  crashes,   \* number of kills and power losses so far
  thr,       \* blocking get, per thread of one process: [pc, key, value,
             \*   prevInt, prevTerm]: position, argument, the local `value`,
             \*   prev_handler_sigint and prev_handler_sigterm; for a thread
             \*   inside getKeyType, type: the mask it returns
  sig,       \* that process: [exit: params_do_exit, int, term: the handlers
             \*   installed for SIGINT and SIGTERM, n: signals delivered so far]
  bhist,     \* history of the blocking get of every thread
  boot,      \* root: [root: the root directory exists, d: the directory the
             \*   symlink root/d refers to (0: no root/d), dirs: ".tmp_XXXXXX"
             \*   directories in root, links: ".link" symlinks in root, both
             \*   by the process that made them, found (history): processes
             \*   whose last bootstrap found root/d present, err (history):
             \*   processes in whose last bootstrap a call failed]
  once,      \* process -> state of the once_flag of Params::Params(): "no",
             \*   "in" (call_once is running ensure_params_path), "yes"
  reg        \* process -> names that getKeyType has inserted into the map
             \*   `keys` of the process (operator[] inserts them with mask 0)

vars == <<dirD, dirDisk, rootTmp, flk, pc, arg, tmpPath, tmpFile, result, rd,
          todo, absval, lastMut, acked, cur, seen, snaps, model, touched, killed,
          crashes, thr, sig, bhist, boot, once, reg>>

\* The map `keys` of process p as it is now: the rows of the table, and a
\* row of mask 0 for every name inserted since.
Rows(p) ==
  [k \in DOMAIN keys \cup reg[p] |-> IF k \in DOMAIN keys THEN keys[k] ELSE {}]

\* Params::checkKey: keys.find(key) != keys.end()
checkKey(p, k) == k \in DOMAIN Rows(p)

Absent == [has |-> FALSE, val |-> <<>>]
Held(v) == [has |-> TRUE, val |-> v]

NoArg == [op |-> "", key |-> "", val |-> <<>>, mask |-> {}]
EmptyMap == [k \in {} |-> <<>>]
NoResult == [rc |-> 0, val |-> <<>>, map |-> EmptyMap, type |-> {}, cause |-> "",
             nolock |-> FALSE]
NoRd == [file |-> NoFile, buf |-> <<>>]
NotKilled == [at |-> "", key |-> ""]

\* The inode a reference stands for.
Deref(x) == IF x.t = "open" THEN tmpFile[x.p] ELSE x

\* What a complete read of root/d/<k> returns now (util::read_file: the
\* content, the empty string when the file cannot be opened).
Visible(k) == IF dirD[k].t = "none" THEN <<>> ELSE Deref(dirD[k]).data

\* A thread that is not inside a blocking get.
NoThr == [pc |-> "idle", key |-> "", value |-> <<>>, prevInt |-> "", prevTerm |-> "",
          type |-> {}]
\* The process before any blocking get: params_do_exit = 0 and the handlers
\* the application installed.
InitSig == [exit |-> 0, int |-> "app_int", term |-> "app_term", n |-> 0]
NoBHist == [before |-> <<"", "">>, flagged |-> FALSE, waitSig |-> FALSE, polls |-> 0,
            polled |-> {}]
\* root/d after the bootstrap of the first process: the symlink refers to the
\* temp directory that process made.
Booted == [root |-> TRUE, d |-> 1, dirs |-> {1}, links |-> {}, found |-> {}, err |-> {}]

\* The histories `model` and `touched` are kept by the specifications that
\* start with a map in `model`; the others start with Untracked and leave
\* both alone.
Untracked == <<>>
Tracking == model # Untracked

InitAside ==
  /\ thr = [t \in Threads |-> NoThr]
  /\ sig = InitSig
  /\ bhist = [t \in Threads |-> NoBHist]
  /\ boot = Booted
  /\ once = [p \in Procs |-> "no"]
  /\ reg = [p \in Procs |-> {}]

InitStore ==
  /\ InitAside
  /\ dirD = [k \in Names |-> NoFile]
  /\ dirDisk = [k \in Names |-> NoFile]
  /\ rootTmp = [n \in TmpNames |-> NoFile]
  /\ flk = [p \in Procs |-> "none"]
  /\ pc = [p \in Procs |-> "idle"]
  /\ arg = [p \in Procs |-> NoArg]
  /\ tmpPath = [p \in Procs |-> 0]
  /\ tmpFile = [p \in Procs |-> NoFile]
  /\ result = [p \in Procs |-> NoResult]
  /\ rd = [p \in Procs |-> NoRd]
  /\ todo = [p \in Procs |-> {}]
  /\ absval = [k \in Names |-> Absent]
  /\ lastMut = [k \in Names |-> 0]
  /\ acked = [k \in Names |-> Absent]
  /\ cur = {}
  /\ seen = [p \in Procs |-> {}]
  /\ snaps = [p \in Procs |-> {}]
  /\ touched = {}
  /\ killed = [p \in Procs |-> NotKilled]
  /\ crashes = 0

\* The state after construction: root/d is there and empty.
Init == InitStore /\ model = Untracked

\* The same, with the histories `model` and `touched` kept.
InitTracked == InitStore /\ model = absval

\* ---------------------------------------------------------------- history
PutPcs == {"p_write", "p_fsync", "p_lock", "p_rename", "p_fsyncdir", "p_close"}
GetPcs == {"g_read"}
ReadAllPcs == {"ra_lock", "ra_scan"}

\* The full contents of root/d: every name that has an entry, with its bytes.
Contents == [k \in {n \in Names : dirD[n].t # "none"} |-> Visible(k)]

\* The map m after the mutator a of process p: put sets the name, remove
\* takes it out, clearAll takes out the rows whose mask shares a bit with
\* the argument.
Apply(m, a, p) ==
  CASE a.op = "put" -> [m EXCEPT ![a.key] = Held(a.val)]
    [] a.op = "remove" -> [m EXCEPT ![a.key] = Absent]
    [] a.op = "clearAll" ->
         [k \in Names |->
            IF k \in DOMAIN Rows(p) /\ MaskAnd(Rows(p)[k], a.mask) THEN Absent ELSE m[k]]
    [] OTHER -> m

\* The processes that take the exclusive lock in this step.
Acquiring ==
  {p \in Procs : /\ pc[p] \in {"p_lock", "r_lock", "c_lock"}
                 /\ pc'[p] \in {"p_rename", "r_unlink", "c_loop"}}

\* Kept by every step.  touched: see above; the step of a process is the one
\* that moves its position.  seen[g]: the value committed under the name of the
\* get g when it started and since, and the payloads of the puts to that name
\* that ran while g did.  snaps[r]: the contents of root/d at every instant
\* of the readAll r.
Hist ==
  /\ seen' = [g \in Procs |->
       IF pc'[g] \in GetPcs
       THEN seen[g] \cup {absval'[arg'[g].key].val}
              \cup {arg'[q].val : q \in {x \in Procs : /\ pc'[x] \in PutPcs
                                                      /\ arg'[x].key = arg'[g].key}}
       ELSE IF pc'[g] = "done" /\ arg'[g].op = "get"
            THEN IF pc[g] = "idle" THEN {absval[arg'[g].key].val} ELSE seen[g]
            ELSE {}]
  /\ snaps' = [r \in Procs |->
       IF pc'[r] \in ReadAllPcs THEN snaps[r] \cup {Contents'}
       ELSE IF pc'[r] = "done" /\ arg'[r].op = "readAll" THEN snaps[r] ELSE {}]
  /\ model' = IF ~Tracking \/ Acquiring = {} THEN model
              ELSE Apply(model, arg[CHOOSE p \in Acquiring : TRUE],
                         CHOOSE p \in Acquiring : TRUE)
  /\ touched' = {p \in Procs :
       /\ Tracking
       /\ pc'[p] # "idle"
       /\ \/ p \in touched
          \/ pc'[p] # pc[p] /\ \E k \in Names : Visible(k)' # Visible(k)}

\* A rename or unlink by p changed what root/d/<k> refers to.
Mutated(p, k, v) ==
  /\ absval' = [absval EXCEPT ![k] = v]
  /\ lastMut' = [lastMut EXCEPT ![k] = p]
  /\ acked' = [acked EXCEPT ![k] = Absent]
  /\ cur' = {g \in cur : arg[g].op = "get" /\ arg[g].key # k}

NoMutation == UNCHANGED <<absval, lastMut, acked, cur>>

\* ---------------------------------------------------------------- registry
\* Params::checkKey(key): a lookup.
CheckKey(p, k) ==
  /\ pc[p] = "idle"
  /\ arg' = [arg EXCEPT ![p] = [NoArg EXCEPT !.op = "checkKey", !.key = k]]
  /\ result' = [result EXCEPT ![p].rc = IF checkKey(p, k) THEN 1 ELSE 0]
  /\ pc' = [pc EXCEPT ![p] = "done"]
  /\ UNCHANGED <<dirD, dirDisk, rootTmp, flk, tmpPath, tmpFile, rd, todo, killed,
                 crashes>>
  /\ NoMutation
  /\ UNCHANGED <<thr, sig, bhist, boot, once, reg>>
  /\ Hist

\* Params::getKeyType(key): return static_cast<ParamKeyType>(keys[key]).
\* operator[] of std::unordered_map inserts a row with value 0 for a name
\* that has none, and returns it.
GetKeyType(p, k) ==
  /\ pc[p] = "idle"
  /\ arg' = [arg EXCEPT ![p] = [NoArg EXCEPT !.op = "getKeyType", !.key = k]]
  /\ reg' = [reg EXCEPT ![p] = IF k \in DOMAIN Rows(p) THEN @ ELSE @ \cup {k}]
  /\ result' = [result EXCEPT ![p].type = IF k \in DOMAIN Rows(p) THEN Rows(p)[k] ELSE {}]
  /\ pc' = [pc EXCEPT ![p] = "done"]
  /\ UNCHANGED <<dirD, dirDisk, rootTmp, flk, tmpPath, tmpFile, rd, todo, killed,
                 crashes>>
  /\ NoMutation
  /\ UNCHANGED <<thr, sig, bhist, boot, once>>
  /\ Hist

\* The process whose threads are modelled one by one; `keys` is one object
\* of the process, which all its threads reach without any lock.
KeysProc == 1

\* What a step of getKeyType in a thread leaves alone.
KeysFrame ==
  UNCHANGED <<dirD, dirDisk, rootTmp, flk, pc, arg, tmpPath, tmpFile, result, rd,
              todo, absval, lastMut, acked, cur, seen, snaps, model, touched, killed,
              crashes, sig, bhist, boot, once>>

\* No thread has brought the process down.
Alive == \A t \in Threads : thr[t].pc # "k_crashed"

\* Thread t calls getKeyType(k).
TGetKeyType(t, k) ==
  /\ Alive
  /\ thr[t].pc = "idle"
  /\ thr' = [thr EXCEPT ![t] = [NoThr EXCEPT !.pc = "k_find", !.key = k]]
  /\ UNCHANGED reg
  /\ KeysFrame

\* Masks a lookup that runs into a concurrent insertion may come back with:
\* the value of some node of the table.
Garbage == {keys[r] : r \in DOMAIN keys}

\* An access to `keys` that is not ordered with a write to it by another
\* thread is a data race: the behaviour is undefined.  The build may crash
\* (the bucket array is being replaced, a node is half linked), return the
\* value of another node, or happen to go the regular way.
Raced(t) ==
  /\ UNCHANGED reg
  /\ \/ thr' = [thr EXCEPT ![t].pc = "k_crashed"]
     \/ \E m \in Garbage : thr' = [thr EXCEPT ![t].pc = "k_done", ![t].type = m]

\* keys[key], first half: operator[] looks the name up and returns the value
\* of its row when there is one.
TFind(t) ==
  /\ Alive
  /\ thr[t].pc = "k_find"
  /\ \/ /\ thr' = [thr EXCEPT
                      ![t].pc = IF thr[t].key \in DOMAIN Rows(KeysProc)
                                THEN "k_done" ELSE "k_insert",
                      ![t].type = IF thr[t].key \in DOMAIN Rows(KeysProc)
                                  THEN Rows(KeysProc)[thr[t].key] ELSE {}]
        /\ UNCHANGED reg
     \/ /\ \E u \in Threads \ {t} : thr[u].pc = "k_insert"
        /\ Raced(t)
  /\ KeysFrame

\* keys[key], second half: there is no row, operator[] inserts one with the
\* value 0 (rehashing when the load factor asks for it) and returns it.
TInsert(t) ==
  /\ Alive
  /\ thr[t].pc = "k_insert"
  /\ \/ /\ reg' = [reg EXCEPT ![KeysProc] = @ \cup {thr[t].key}]
        /\ thr' = [thr EXCEPT ![t].pc = "k_done", ![t].type = {}]
     \/ /\ \E u \in Threads \ {t} : thr[u].pc \in {"k_find", "k_insert"}
        /\ Raced(t)
  /\ KeysFrame

\* return static_cast<ParamKeyType>(...);
TReturnKeyType(t) ==
  /\ Alive
  /\ thr[t].pc = "k_done"
  /\ thr' = [thr EXCEPT ![t] = NoThr]
  /\ UNCHANGED reg
  /\ KeysFrame

\* --------------------------------------------------------------------- put
\* mkstemp(tmp_path): creates, with O_EXCL, a file under a name of the
\* pattern that does not exist at this moment, or fails.
StartPut(p, k, v, oks) ==
  /\ pc[p] = "idle"
  /\ arg' = [arg EXCEPT ![p] = [op |-> "put", key |-> k, val |-> v, mask |-> {}]]
  /\ \/ \E n \in TmpNames :
          /\ rootTmp[n].t = "none"
          /\ rootTmp' = [rootTmp EXCEPT ![n] = Ref(p)]
          /\ tmpPath' = [tmpPath EXCEPT ![p] = n]
          /\ tmpFile' = [tmpFile EXCEPT ![p] = NewFile]
          /\ pc' = [pc EXCEPT ![p] = "p_write"]
          /\ result' = [result EXCEPT ![p] = [NoResult EXCEPT !.rc = -1]]
     \/ /\ FALSE \in oks \/ \A n \in TmpNames : rootTmp[n].t # "none"
        /\ pc' = [pc EXCEPT ![p] = "done"]           \* if (tmp_fd < 0) return -1
        /\ result' = [result EXCEPT ![p] = [NoResult EXCEPT !.rc = -1, !.cause = "mkstemp"]]
        /\ UNCHANGED <<rootTmp, tmpPath, tmpFile>>
  /\ UNCHANGED <<dirD, dirDisk, flk, rd, todo, killed, crashes>>
  /\ NoMutation
  /\ UNCHANGED <<thr, sig, bhist, boot, once, reg>>
  /\ Hist

\* WriteTmp as it would be if a short write set the status -1 of the other
\* failures.
WriteTmpPlainStatus(p, oks) ==
  /\ pc[p] = "p_write"
  /\ \E n \in 0..Len(arg[p].val) :
       /\ n < Len(arg[p].val) => FALSE \in oks
       /\ tmpFile' = [tmpFile EXCEPT ![p].data = SubSeq(arg[p].val, 1, n),
                                     ![p].synced = (n = 0)]
       /\ IF n = Len(arg[p].val)
          THEN /\ pc' = [pc EXCEPT ![p] = "p_fsync"]
               /\ UNCHANGED result
          ELSE /\ pc' = [pc EXCEPT ![p] = "p_close"]
               /\ result' = [result EXCEPT ![p].rc = -1, ![p].cause = "write"]
  /\ UNCHANGED <<dirD, dirDisk, rootTmp, flk, arg, tmpPath, rd, todo, killed, crashes>>
  /\ NoMutation
  /\ UNCHANGED <<thr, sig, bhist, boot, once, reg>>
  /\ Hist

\* write(tmp_fd, value, value_size): one call, which may write fewer bytes.
WriteTmp(p, oks) ==
  /\ pc[p] = "p_write"
  /\ \E n \in 0..Len(arg[p].val) :
       /\ n < Len(arg[p].val) => FALSE \in oks
       /\ tmpFile' = [tmpFile EXCEPT ![p].data = SubSeq(arg[p].val, 1, n),
                                     ![p].synced = (n = 0)]
       /\ IF n = Len(arg[p].val)
          THEN /\ pc' = [pc EXCEPT ![p] = "p_fsync"]
               /\ UNCHANGED result
          ELSE /\ pc' = [pc EXCEPT ![p] = "p_close"]
               /\ result' = [result EXCEPT ![p].rc = -20, ![p].cause = "write"]
  /\ UNCHANGED <<dirD, dirDisk, rootTmp, flk, arg, tmpPath, rd, todo, killed, crashes>>
  /\ NoMutation
  /\ UNCHANGED <<thr, sig, bhist, boot, once, reg>>
  /\ Hist

\* FsyncTmp as it would be if the result of fsync were not tested.
FsyncTmpIgnored(p, oks) ==
  /\ pc[p] = "p_fsync"
  /\ \E ok \in oks :
       /\ tmpFile' = [tmpFile EXCEPT ![p].synced = IF ok THEN TRUE ELSE @]
       /\ result' = [result EXCEPT ![p].rc = IF ok THEN 0 ELSE -1]
       /\ pc' = [pc EXCEPT ![p] = "p_lock"]
  /\ UNCHANGED <<dirD, dirDisk, rootTmp, flk, arg, tmpPath, rd, todo, killed, crashes>>
  /\ NoMutation
  /\ UNCHANGED <<thr, sig, bhist, boot, once, reg>>
  /\ Hist

\* if ((result = fsync(tmp_fd)) < 0) break;
FsyncTmp(p, oks) ==
  /\ pc[p] = "p_fsync"
  /\ \E ok \in oks :
       IF ok
       THEN /\ tmpFile' = [tmpFile EXCEPT ![p].synced = TRUE]
            /\ result' = [result EXCEPT ![p].rc = 0]
            /\ pc' = [pc EXCEPT ![p] = "p_lock"]
       ELSE /\ result' = [result EXCEPT ![p].rc = -1, ![p].cause = "fsync"]
            /\ pc' = [pc EXCEPT ![p] = "p_close"]
            /\ UNCHANGED tmpFile
  /\ UNCHANGED <<dirD, dirDisk, rootTmp, flk, arg, tmpPath, rd, todo, killed, crashes>>
  /\ NoMutation
  /\ UNCHANGED <<thr, sig, bhist, boot, once, reg>>
  /\ Hist

\* LockEx as it would be with LOCK_SH passed in place of LOCK_EX: the lock is
\* granted beside other shared holders.
LockExAsShared(p) ==
  /\ pc[p] \in {"p_lock", "r_lock", "c_lock"}
  /\ \A q \in Procs \ {p} : flk[q] # "ex"
  /\ flk' = [flk EXCEPT ![p] = "sh"]
  /\ pc' = [pc EXCEPT ![p] = CASE pc[p] = "p_lock" -> "p_rename"
                               [] pc[p] = "r_lock" -> "r_unlink"
                               [] pc[p] = "c_lock" -> "c_loop"]
  /\ todo' = [todo EXCEPT ![p] = IF pc[p] = "c_lock" THEN DOMAIN Rows(p) ELSE {}]
  /\ UNCHANGED <<dirD, dirDisk, rootTmp, arg, tmpPath, tmpFile, result, rd,
                 killed, crashes>>
  /\ NoMutation
  /\ UNCHANGED <<thr, sig, bhist, boot, once, reg>>
  /\ Hist

\* FileLock::lock with LOCK_EX (put, remove, clearAll): flock grants the
\* exclusive lock when no other open file description holds any lock.
LockEx(p) ==
  /\ pc[p] \in {"p_lock", "r_lock", "c_lock"}
  /\ \A q \in Procs \ {p} : flk[q] = "none"
  /\ flk' = [flk EXCEPT ![p] = "ex"]
  /\ pc' = [pc EXCEPT ![p] = CASE pc[p] = "p_lock" -> "p_rename"
                               [] pc[p] = "r_lock" -> "r_unlink"
                               [] pc[p] = "c_lock" -> "c_loop"]
  /\ todo' = [todo EXCEPT ![p] = IF pc[p] = "c_lock" THEN DOMAIN Rows(p) ELSE {}]
  /\ UNCHANGED <<dirD, dirDisk, rootTmp, arg, tmpPath, tmpFile, result, rd,
                 killed, crashes>>
  /\ NoMutation
  /\ UNCHANGED <<thr, sig, bhist, boot, once, reg>>
  /\ Hist

\* LockFailed as it would be if a lock that cannot be taken made the
\* operation give up with a failure status.
LockFailedGivesUp(p) ==
  /\ pc[p] \in {"p_lock", "r_lock", "c_lock", "ra_lock"}
  /\ pc' = [pc EXCEPT ![p] = IF pc[p] = "p_lock" THEN "p_close" ELSE "done"]
  /\ result' = [result EXCEPT ![p].nolock = TRUE, ![p].rc = -1]
  /\ UNCHANGED <<dirD, dirDisk, rootTmp, flk, arg, tmpPath, tmpFile, rd, todo,
                 killed, crashes>>
  /\ NoMutation
  /\ UNCHANGED <<thr, sig, bhist, boot, once, reg>>
  /\ Hist

\* FileLock::lock when open of the lock file or flock fails: the error is
\* logged and lock() returns; the guard's scope is entered without the lock.
LockFailed(p) ==
  /\ pc[p] \in {"p_lock", "r_lock", "c_lock", "ra_lock"}
  /\ pc' = [pc EXCEPT ![p] = CASE pc[p] = "p_lock" -> "p_rename"
                               [] pc[p] = "r_lock" -> "r_unlink"
                               [] pc[p] = "c_lock" -> "c_loop"
                               [] pc[p] = "ra_lock" -> "ra_scan"]
  /\ todo' = [todo EXCEPT ![p] = IF pc[p] = "c_lock" THEN DOMAIN Rows(p) ELSE {}]
  /\ result' = [result EXCEPT ![p].nolock = TRUE]
  /\ UNCHANGED <<dirD, dirDisk, rootTmp, flk, arg, tmpPath, tmpFile, rd,
                 killed, crashes>>
  /\ NoMutation
  /\ UNCHANGED <<thr, sig, bhist, boot, once, reg>>
  /\ Hist

\* RenameTmp as it would be if the break on failure skipped the unlock.
RenameTmpKeepsLock(p, oks) ==
  /\ pc[p] = "p_rename"
  /\ LET n == tmpPath[p]
         k == arg[p].key
     IN \/ /\ rootTmp[n].t # "none"
           /\ dirD' = [dirD EXCEPT ![k] = rootTmp[n]]
           /\ rootTmp' = [rootTmp EXCEPT ![n] = NoFile]
           /\ result' = [result EXCEPT ![p].rc = 0]
           /\ pc' = [pc EXCEPT ![p] = "p_fsyncdir"]
           /\ Mutated(p, k, Held(arg[p].val))
        \/ /\ rootTmp[n].t = "none" \/ FALSE \in oks
           /\ result' = [result EXCEPT ![p].rc = -1, ![p].cause = "rename"]
           /\ pc' = [pc EXCEPT ![p] = "p_close"]
           /\ UNCHANGED <<dirD, rootTmp>>
           /\ NoMutation
  /\ UNCHANGED <<flk, dirDisk, arg, tmpPath, tmpFile, rd, todo, killed, crashes>>
  /\ UNCHANGED <<thr, sig, bhist, boot, once, reg>>
  /\ Hist

\* rename(tmp_path, root/d/<key>): moves whatever the temp name refers to
\* now; fails (ENOENT) when the name is gone, or for another reason.  On
\* failure the break leaves the block and the lock guard unlocks.
RenameTmp(p, oks) ==
  /\ pc[p] = "p_rename"
  /\ LET n == tmpPath[p]
         k == arg[p].key
     IN \/ /\ rootTmp[n].t # "none"
           /\ dirD' = [dirD EXCEPT ![k] = rootTmp[n]]
           /\ rootTmp' = [rootTmp EXCEPT ![n] = NoFile]
           /\ result' = [result EXCEPT ![p].rc = 0]
           /\ pc' = [pc EXCEPT ![p] = "p_fsyncdir"]
           /\ Mutated(p, k, Held(arg[p].val))
           /\ UNCHANGED flk
        \/ /\ rootTmp[n].t = "none" \/ FALSE \in oks
           /\ result' = [result EXCEPT ![p].rc = -1, ![p].cause = "rename"]
           /\ pc' = [pc EXCEPT ![p] = "p_close"]
           /\ flk' = [flk EXCEPT ![p] = "none"]
           /\ UNCHANGED <<dirD, rootTmp>>
           /\ NoMutation
  /\ UNCHANGED <<dirDisk, arg, tmpPath, tmpFile, rd, todo, killed, crashes>>
  /\ UNCHANGED <<thr, sig, bhist, boot, once, reg>>
  /\ Hist

\* fsync_dir(root/d): on success the entries of root/d are on stable storage.
FsyncDir(ok) == dirDisk' = IF ok THEN dirD ELSE dirDisk

\* result = fsync_dir(path); then the block ends and the lock guard unlocks.
FsyncDirPut(p, oks) ==
  /\ pc[p] = "p_fsyncdir"
  /\ \E ok \in oks :
       /\ FsyncDir(ok)
       /\ result' = [result EXCEPT ![p].rc = IF ok THEN 0 ELSE -1,
                                   ![p].cause = IF ok THEN "" ELSE "fsyncdir"]
  /\ flk' = [flk EXCEPT ![p] = "none"]
  /\ pc' = [pc EXCEPT ![p] = "p_close"]
  /\ UNCHANGED <<dirD, rootTmp, arg, tmpPath, tmpFile, rd, todo, killed, crashes>>
  /\ NoMutation
  /\ UNCHANGED <<thr, sig, bhist, boot, once, reg>>
  /\ Hist

\* x, with the reference to the open inode of p replaced by the inode f.
Settle(x, p, f) == IF x = Ref(p) THEN f ELSE x

\* CloseUnlink as it would be without the unlink: the descriptor is closed
\* and the temp name is left in root.
CloseOnly(p) ==
  /\ pc[p] = "p_close"
  /\ LET f == tmpFile[p]
     IN /\ dirD' = [k \in Names |-> Settle(dirD[k], p, f)]
        /\ dirDisk' = [k \in Names |-> Settle(dirDisk[k], p, f)]
        /\ rootTmp' = [n \in TmpNames |-> Settle(rootTmp[n], p, f)]
        /\ rd' = [g \in Procs |-> [rd[g] EXCEPT !.file = Settle(rd[g].file, p, f)]]
  /\ tmpFile' = [tmpFile EXCEPT ![p] = NoFile]
  /\ tmpPath' = [tmpPath EXCEPT ![p] = 0]
  /\ pc' = [pc EXCEPT ![p] = "done"]
  /\ acked' = IF result[p].rc = 0 /\ lastMut[arg[p].key] = p
              THEN [acked EXCEPT ![arg[p].key] = Held(arg[p].val)]
              ELSE acked
  /\ UNCHANGED <<flk, arg, result, todo, absval, lastMut, cur, killed, crashes>>
  /\ UNCHANGED <<thr, sig, bhist, boot, once, reg>>
  /\ Hist

\* close(tmp_fd); ::unlink(tmp_path.c_str()); return result;
\* The unlink removes whatever the temp name refers to at this moment.
CloseUnlink(p) ==
  /\ pc[p] = "p_close"
  /\ LET f == tmpFile[p]
     IN /\ dirD' = [k \in Names |-> Settle(dirD[k], p, f)]
        /\ dirDisk' = [k \in Names |-> Settle(dirDisk[k], p, f)]
        /\ rootTmp' = [n \in TmpNames |->
                         IF n = tmpPath[p] THEN NoFile ELSE Settle(rootTmp[n], p, f)]
        /\ rd' = [g \in Procs |-> [rd[g] EXCEPT !.file = Settle(rd[g].file, p, f)]]
  /\ tmpFile' = [tmpFile EXCEPT ![p] = NoFile]
  /\ tmpPath' = [tmpPath EXCEPT ![p] = 0]
  /\ pc' = [pc EXCEPT ![p] = "done"]
  /\ acked' = IF result[p].rc = 0 /\ lastMut[arg[p].key] = p
              THEN [acked EXCEPT ![arg[p].key] = Held(arg[p].val)]
              ELSE acked
  /\ UNCHANGED <<flk, arg, result, todo, absval, lastMut, cur, killed, crashes>>
  /\ UNCHANGED <<thr, sig, bhist, boot, once, reg>>
  /\ Hist

\* The caller has the return value; the process is free to call again.
Return(p) ==
  /\ pc[p] = "done"
  /\ pc' = [pc EXCEPT ![p] = "idle"]
  /\ arg' = [arg EXCEPT ![p] = NoArg]
  /\ result' = [result EXCEPT ![p] = NoResult]
  /\ rd' = [rd EXCEPT ![p] = NoRd]
  /\ cur' = cur \ {p}
  /\ UNCHANGED <<dirD, dirDisk, rootTmp, flk, tmpPath, tmpFile, todo, absval,
                 lastMut, acked, killed, crashes>>
  /\ UNCHANGED <<thr, sig, bhist, boot, once, reg>>
  /\ Hist

\* ------------------------------------------------------------------ remove
\* Params::remove is entered; its first statement takes the exclusive lock.
StartRemove(p, k) ==
  /\ pc[p] = "idle"
  /\ arg' = [arg EXCEPT ![p] = [op |-> "remove", key |-> k, val |-> <<>>, mask |-> {}]]
  /\ pc' = [pc EXCEPT ![p] = "r_lock"]
  /\ UNCHANGED <<dirD, dirDisk, rootTmp, flk, tmpPath, tmpFile, result, rd, todo,
                 killed, crashes>>
  /\ NoMutation
  /\ UNCHANGED <<thr, sig, bhist, boot, once, reg>>
  /\ Hist

\* UnlinkKey as it would be if the path it unlinks were not the one of the
\* key (the call succeeds on some other file of root).
UnlinkKeyOtherPath(p, oks) ==
  /\ pc[p] = "r_unlink"
  /\ result' = [result EXCEPT ![p].rc = 0]
  /\ pc' = [pc EXCEPT ![p] = "r_fsyncdir"]
  /\ lastMut' = [lastMut EXCEPT ![arg[p].key] = p]
  /\ UNCHANGED <<dirD, dirDisk, rootTmp, flk, arg, tmpPath, tmpFile, rd, todo,
                 absval, acked, cur, killed, crashes>>
  /\ UNCHANGED <<thr, sig, bhist, boot, once, reg>>
  /\ Hist

\* UnlinkKey as it would be with the result of unlink ignored, as clearAll
\* ignores it: remove goes on to the directory fsync and returns its result.
UnlinkKeyIgnored(p, oks) ==
  /\ pc[p] = "r_unlink"
  /\ LET k == arg[p].key
     IN IF dirD[k].t # "none"
        THEN /\ dirD' = [dirD EXCEPT ![k] = NoFile]
             /\ Mutated(p, k, Absent)
        ELSE /\ UNCHANGED dirD
             /\ NoMutation
  /\ result' = [result EXCEPT ![p].rc = 0]
  /\ pc' = [pc EXCEPT ![p] = "r_fsyncdir"]
  /\ UNCHANGED <<dirDisk, rootTmp, flk, arg, tmpPath, tmpFile, rd, todo, killed, crashes>>
  /\ UNCHANGED <<thr, sig, bhist, boot, once, reg>>
  /\ Hist

\* int result = unlink(path); if (result != 0) return result;
UnlinkKey(p, oks) ==
  /\ pc[p] = "r_unlink"
  /\ LET k == arg[p].key
     IN \/ /\ dirD[k].t # "none"
           /\ dirD' = [dirD EXCEPT ![k] = NoFile]
           /\ result' = [result EXCEPT ![p].rc = 0]
           /\ pc' = [pc EXCEPT ![p] = "r_fsyncdir"]
           /\ Mutated(p, k, Absent)
           /\ UNCHANGED flk
        \/ /\ dirD[k].t = "none" \/ FALSE \in oks
           /\ result' = [result EXCEPT ![p].rc = -1, ![p].cause = "unlink"]
           /\ pc' = [pc EXCEPT ![p] = "done"]
           /\ flk' = [flk EXCEPT ![p] = "none"]
           /\ UNCHANGED dirD
           /\ NoMutation
  /\ UNCHANGED <<dirDisk, rootTmp, arg, tmpPath, tmpFile, rd, todo, killed, crashes>>
  /\ UNCHANGED <<thr, sig, bhist, boot, once, reg>>
  /\ Hist

\* return fsync_dir(path.c_str());
FsyncDirRemove(p, oks) ==
  /\ pc[p] = "r_fsyncdir"
  /\ \E ok \in oks :
       /\ FsyncDir(ok)
       /\ result' = [result EXCEPT ![p].rc = IF ok THEN 0 ELSE -1,
                                   ![p].cause = IF ok THEN "" ELSE "fsyncdir"]
  /\ flk' = [flk EXCEPT ![p] = "none"]
  /\ pc' = [pc EXCEPT ![p] = "done"]
  /\ UNCHANGED <<dirD, rootTmp, arg, tmpPath, tmpFile, rd, todo, killed, crashes>>
  /\ NoMutation
  /\ UNCHANGED <<thr, sig, bhist, boot, once, reg>>
  /\ Hist

\* --------------------------------------------------------------------- get
\* GetBlockers as it would be if get took the shared lock as readAll does.
GetBlockersShared(p) == {q \in Procs \ {p} : flk[q] = "ex"}

\* The holders of the lock a get has to wait for: Params::get constructs no
\* FileLock, so there are none.
GetBlockers(p) == {}

\* GetOpen as it would be if the file were opened with O_CREAT: a name that
\* has no file gets an empty one.
GetOpenCreate(p, k) ==
  /\ pc[p] = "idle"
  /\ arg' = [arg EXCEPT ![p] = [op |-> "get", key |-> k, val |-> <<>>, mask |-> {}]]
  /\ dirD' = [dirD EXCEPT ![k] = IF dirD[k].t = "none" THEN NewFile ELSE dirD[k]]
  /\ pc' = [pc EXCEPT ![p] = "g_read"]
  /\ rd' = [rd EXCEPT ![p] = [file |-> dirD'[k], buf |-> <<>>]]
  /\ cur' = cur \cup {p}
  /\ UNCHANGED <<dirDisk, rootTmp, flk, tmpPath, tmpFile, result, todo, absval,
                 lastMut, acked, killed, crashes>>
  /\ UNCHANGED <<thr, sig, bhist, boot, once, reg>>
  /\ Hist

\* Params::get(key, block = false): util::read_file opens root/d/<key>.  It
\* holds the inode the name refers to at this moment, or returns the empty
\* string when there is no such file.
GetOpen(p, k) ==
  /\ pc[p] = "idle"
  /\ GetBlockers(p) = {}
  /\ arg' = [arg EXCEPT ![p] = [op |-> "get", key |-> k, val |-> <<>>, mask |-> {}]]
  /\ IF dirD[k].t = "none"
     THEN /\ pc' = [pc EXCEPT ![p] = "done"]
          /\ result' = [result EXCEPT ![p].val = <<>>]
          /\ UNCHANGED rd
     ELSE /\ pc' = [pc EXCEPT ![p] = "g_read"]
          /\ rd' = [rd EXCEPT ![p] = [file |-> dirD[k], buf |-> <<>>]]
          /\ UNCHANGED result
  /\ cur' = cur \cup {p}
  /\ UNCHANGED <<dirD, dirDisk, rootTmp, flk, tmpPath, tmpFile, todo, absval,
                 lastMut, acked, killed, crashes>>
  /\ UNCHANGED <<thr, sig, bhist, boot, once, reg>>
  /\ Hist

\* util::read_file reads the next byte of the inode it holds, or meets the end
\* of the file and returns what it has read.
ReadFile(p) ==
  /\ pc[p] = "g_read"
  /\ LET d == Deref(rd[p].file).data
         n == Len(rd[p].buf)
     IN IF n < Len(d)
        THEN /\ rd' = [rd EXCEPT ![p].buf = Append(rd[p].buf, d[n + 1])]
             /\ UNCHANGED <<pc, result>>
        ELSE /\ pc' = [pc EXCEPT ![p] = "done"]
             /\ result' = [result EXCEPT ![p].val = rd[p].buf]
             /\ UNCHANGED rd
  /\ UNCHANGED <<dirD, dirDisk, rootTmp, flk, arg, tmpPath, tmpFile, todo, killed,
                 crashes>>
  /\ NoMutation
  /\ UNCHANGED <<thr, sig, bhist, boot, once, reg>>
  /\ Hist

\* ------------------------------------------------------------ blocking get
\* The store variables no step of a blocking get writes.
StoreUnchanged ==
  UNCHANGED <<dirD, dirDisk, rootTmp, flk, pc, arg, tmpPath, tmpFile, result, rd,
              todo, absval, lastMut, acked, cur, seen, snaps, model, touched, killed,
              crashes, boot, once, reg>>

\* BStart as it would be without the statement params_do_exit = 0.
BStartKeepsFlag(t, k) ==
  /\ thr[t].pc = "idle"
  /\ thr' = [thr EXCEPT ![t] = [NoThr EXCEPT !.pc = "b_sigint", !.key = k]]
  /\ UNCHANGED sig
  /\ bhist' = [bhist EXCEPT ![t] = [NoBHist EXCEPT !.before = <<sig.int, sig.term>>]]
  /\ StoreUnchanged

\* Params::get(key, block = true) is entered: params_do_exit = 0.
BStart(t, k) ==
  /\ thr[t].pc = "idle"
  /\ thr' = [thr EXCEPT ![t] = [NoThr EXCEPT !.pc = "b_sigint", !.key = k]]
  /\ sig' = [sig EXCEPT !.exit = 0]
  /\ bhist' = [bhist EXCEPT ![t] = [NoBHist EXCEPT !.before = <<sig.int, sig.term>>]]
  /\ StoreUnchanged

\* prev_handler_sigint = std::signal(SIGINT, params_sig_handler);
InstallInt(t) ==
  /\ thr[t].pc = "b_sigint"
  /\ thr' = [thr EXCEPT ![t].prevInt = sig.int, ![t].pc = "b_sigterm"]
  /\ sig' = [sig EXCEPT !.int = "params"]
  /\ UNCHANGED bhist
  /\ StoreUnchanged

\* prev_handler_sigterm = std::signal(SIGTERM, params_sig_handler);
InstallTerm(t) ==
  /\ thr[t].pc = "b_sigterm"
  /\ thr' = [thr EXCEPT ![t].prevTerm = sig.term, ![t].pc = "b_test"]
  /\ sig' = [sig EXCEPT !.term = "params"]
  /\ UNCHANGED bhist
  /\ StoreUnchanged

\* while (!params_do_exit)
TestExit(t) ==
  /\ thr[t].pc = "b_test"
  /\ thr' = [thr EXCEPT ![t].pc = IF sig.exit = 1 THEN "b_restint" ELSE "b_poll"]
  /\ UNCHANGED <<sig, bhist>>
  /\ StoreUnchanged

\* Poll as it would be without the loop around it: the get gives up after a
\* poll that found nothing.
PollOnce(t) ==
  /\ thr[t].pc = "b_poll"
  /\ thr' = [thr EXCEPT ![t].value = Visible(thr[t].key), ![t].pc = "b_restint"]
  /\ bhist' = [bhist EXCEPT ![t].polled = @ \cup {Visible(thr[t].key)}]
  /\ UNCHANGED sig
  /\ StoreUnchanged

\* Poll as it would be if a value that was found did not end the loop.
PollKeepsWaiting(t) ==
  /\ thr[t].pc = "b_poll"
  /\ LET v == Visible(thr[t].key)
     IN /\ thr' = [thr EXCEPT ![t].value = v, ![t].pc = "b_test"]
        /\ bhist' = [bhist EXCEPT
                       ![t].polled = @ \cup {v},
                       ![t].polls = IF bhist[t].waitSig /\ @ < 2 THEN @ + 1 ELSE @]
  /\ UNCHANGED sig
  /\ StoreUnchanged

\* if (value = util::read_file(path); !value.empty()) break;
\* util::sleep_for(100);
\* The read is one step: a file is written by one write call, so reading it
\* byte by byte returns nothing that a read at one instant does not.
Poll(t) ==
  /\ thr[t].pc = "b_poll"
  /\ LET v == Visible(thr[t].key)
     IN /\ thr' = [thr EXCEPT ![t].value = v,
                              ![t].pc = IF v # <<>> THEN "b_restint" ELSE "b_test"]
        /\ bhist' = [bhist EXCEPT
                       ![t].polled = @ \cup {v},
                       ![t].polls = IF bhist[t].waitSig /\ @ < 2 THEN @ + 1 ELSE @]
  /\ UNCHANGED sig
  /\ StoreUnchanged

\* std::signal(SIGINT, prev_handler_sigint);
RestoreInt(t) ==
  /\ thr[t].pc = "b_restint"
  /\ sig' = [sig EXCEPT !.int = thr[t].prevInt]
  /\ thr' = [thr EXCEPT ![t].pc = "b_restterm"]
  /\ UNCHANGED bhist
  /\ StoreUnchanged

\* std::signal(SIGTERM, prev_handler_sigterm);
RestoreTerm(t) ==
  /\ thr[t].pc = "b_restterm"
  /\ sig' = [sig EXCEPT !.term = thr[t].prevTerm]
  /\ thr' = [thr EXCEPT ![t].pc = "b_done"]
  /\ UNCHANGED bhist
  /\ StoreUnchanged

\* return value;
BReturn(t) ==
  /\ thr[t].pc = "b_done"
  /\ thr' = [thr EXCEPT ![t] = NoThr]
  /\ bhist' = [bhist EXCEPT ![t] = NoBHist]
  /\ UNCHANGED sig
  /\ StoreUnchanged

\* The positions of the polling loop, and those of a get in progress.
WaitPcs == {"b_test", "b_poll"}
BlockPcs == {"b_sigint", "b_sigterm", "b_test", "b_poll", "b_restint", "b_restterm"}

\* The process receives SIGINT (s = "int") or SIGTERM (s = "term"): the
\* handler installed for it runs.  params_sig_handler sets params_do_exit;
\* the handler of the application does not touch the store.
Signal(s) ==
  /\ sig.n < MaxSignals
  /\ IF sig[s] = "params"
     THEN /\ sig' = [sig EXCEPT !.exit = 1, !.n = @ + 1]
          /\ bhist' = [t \in Threads |->
                         [bhist[t] EXCEPT
                            !.flagged = @ \/ thr[t].pc \in BlockPcs,
                            !.waitSig = @ \/ thr[t].pc \in WaitPcs]]
     ELSE /\ sig' = [sig EXCEPT !.n = @ + 1]
          /\ UNCHANGED bhist
  /\ UNCHANGED thr
  /\ StoreUnchanged

\* ----------------------------------------------------------------- readAll
\* Params::readAll is entered; its first statement takes the shared lock.
StartReadAll(p) ==
  /\ pc[p] = "idle"
  /\ arg' = [arg EXCEPT ![p] = [op |-> "readAll", key |-> "", val |-> <<>>, mask |-> {}]]
  /\ pc' = [pc EXCEPT ![p] = "ra_lock"]
  /\ cur' = cur \cup {p}
  /\ UNCHANGED <<dirD, dirDisk, rootTmp, flk, tmpPath, tmpFile, result, rd, todo,
                 absval, lastMut, acked, killed, crashes>>
  /\ UNCHANGED <<thr, sig, bhist, boot, once, reg>>
  /\ Hist

\* LockSh as it would be if the flock call did not wait for the holder of
\* the exclusive lock (LOCK_NB, the failure only logged).
LockShNoWait(p) ==
  /\ pc[p] = "ra_lock"
  /\ flk' = [flk EXCEPT ![p] = "sh"]
  /\ pc' = [pc EXCEPT ![p] = "ra_scan"]
  /\ UNCHANGED <<dirD, dirDisk, rootTmp, arg, tmpPath, tmpFile, result, rd, todo,
                 killed, crashes>>
  /\ NoMutation
  /\ UNCHANGED <<thr, sig, bhist, boot, once, reg>>
  /\ Hist

\* FileLock::lock with LOCK_SH: flock grants the shared lock when no other
\* open file description holds the exclusive lock.
LockSh(p) ==
  /\ pc[p] = "ra_lock"
  /\ \A q \in Procs \ {p} : flk[q] # "ex"
  /\ flk' = [flk EXCEPT ![p] = "sh"]
  /\ pc' = [pc EXCEPT ![p] = "ra_scan"]
  /\ UNCHANGED <<dirD, dirDisk, rootTmp, arg, tmpPath, tmpFile, result, rd, todo,
                 killed, crashes>>
  /\ NoMutation
  /\ UNCHANGED <<thr, sig, bhist, boot, once, reg>>
  /\ Hist

\* util::read_files_in_dir: the next directory entry not yet visited, and
\* the content of its file.
ScanEntry(p) ==
  /\ pc[p] = "ra_scan"
  /\ \E k \in Names \ DOMAIN result[p].map :
       /\ dirD[k].t # "none"
       /\ result' = [result EXCEPT ![p].map = (k :> Visible(k)) @@ result[p].map]
  /\ UNCHANGED <<dirD, dirDisk, rootTmp, flk, pc, arg, tmpPath, tmpFile, rd, todo,
                 killed, crashes>>
  /\ NoMutation
  /\ UNCHANGED <<thr, sig, bhist, boot, once, reg>>
  /\ Hist

\* No entry is left: readAll returns the mapping and the lock guard unlocks.
ScanEnd(p) ==
  /\ pc[p] = "ra_scan"
  /\ \A k \in Names \ DOMAIN result[p].map : dirD[k].t = "none"
  /\ flk' = [flk EXCEPT ![p] = "none"]
  /\ pc' = [pc EXCEPT ![p] = "done"]
  /\ UNCHANGED <<dirD, dirDisk, rootTmp, arg, tmpPath, tmpFile, result, rd, todo,
                 killed, crashes>>
  /\ NoMutation
  /\ UNCHANGED <<thr, sig, bhist, boot, once, reg>>
  /\ Hist

\* ---------------------------------------------------------------- clearAll
\* Params::clearAll(key_type) is entered; it first takes the exclusive lock.
StartClearAll(p, m) ==
  /\ pc[p] = "idle"
  /\ arg' = [arg EXCEPT ![p] = [op |-> "clearAll", key |-> "", val |-> <<>>, mask |-> m]]
  /\ pc' = [pc EXCEPT ![p] = "c_lock"]
  /\ UNCHANGED <<dirD, dirDisk, rootTmp, flk, tmpPath, tmpFile, result, rd, todo,
                 killed, crashes>>
  /\ NoMutation
  /\ UNCHANGED <<thr, sig, bhist, boot, once, reg>>
  /\ Hist

\* ClearMatches as it would be with `type == key_type` for `type & key_type`.
ClearMatchesEq(type, key_type) == type = key_type

\* ClearMatches as it would be with the test of the mask left out.
ClearMatchesAny(type, key_type) == TRUE

\* The row's file is unlinked when its mask shares a bit with key_type.
ClearMatches(type, key_type) == MaskAnd(type, key_type)

\* ClearStep as it would be if the result of unlink were tested as remove
\* tests it: a matching row without a file ends clearAll with a status.
ClearStepStopsOnMissing(p) ==
  /\ pc[p] = "c_loop"
  /\ \E k \in todo[p] :
       /\ todo' = [todo EXCEPT ![p] = todo[p] \ {k}]
       /\ IF ClearMatches(Rows(p)[k], arg[p].mask) /\ dirD[k].t # "none"
          THEN /\ dirD' = [dirD EXCEPT ![k] = NoFile]
               /\ Mutated(p, k, Absent)
               /\ UNCHANGED <<pc, result, flk>>
          ELSE /\ UNCHANGED dirD
               /\ NoMutation
               /\ IF ClearMatches(Rows(p)[k], arg[p].mask)
                  THEN /\ pc' = [pc EXCEPT ![p] = "done"]
                       /\ result' = [result EXCEPT ![p].rc = -1, ![p].cause = "unlink"]
                       /\ flk' = [flk EXCEPT ![p] = "none"]
                  ELSE UNCHANGED <<pc, result, flk>>
  /\ UNCHANGED <<dirDisk, rootTmp, arg, tmpPath, tmpFile, rd, killed, crashes>>
  /\ UNCHANGED <<thr, sig, bhist, boot, once, reg>>
  /\ Hist

\* One turn of `for (auto &[key, type] : keys)`, in the map's own order:
\* if (type & key_type) unlink(root/d/<key>), the result being ignored.
ClearStep(p) ==
  /\ pc[p] = "c_loop"
  /\ \E k \in todo[p] :
       /\ todo' = [todo EXCEPT ![p] = todo[p] \ {k}]
       /\ IF ClearMatches(Rows(p)[k], arg[p].mask) /\ dirD[k].t # "none"
          THEN /\ dirD' = [dirD EXCEPT ![k] = NoFile]
               /\ Mutated(p, k, Absent)
          ELSE /\ UNCHANGED dirD
               /\ NoMutation
  /\ UNCHANGED <<dirDisk, rootTmp, flk, pc, arg, tmpPath, tmpFile, result, rd,
                 killed, crashes>>
  /\ UNCHANGED <<thr, sig, bhist, boot, once, reg>>
  /\ Hist

\* After the loop: fsync_dir(root/d), whose result is ignored; clearAll
\* returns and the lock guard unlocks.
ClearFsync(p, oks) ==
  /\ pc[p] = "c_loop"
  /\ todo[p] = {}
  /\ \E ok \in oks : FsyncDir(ok)
  /\ flk' = [flk EXCEPT ![p] = "none"]
  /\ pc' = [pc EXCEPT ![p] = "done"]
  /\ UNCHANGED <<dirD, rootTmp, arg, tmpPath, tmpFile, result, rd, todo, killed,
                 crashes>>
  /\ NoMutation
  /\ UNCHANGED <<thr, sig, bhist, boot, once, reg>>
  /\ Hist

\* ----------------------------------------------------- kills and power loss
\* The process of an operation in progress is terminated (SIGKILL): the
\* kernel closes its descriptors, which releases its flock; what it linked
\* stays linked, its temp file included.  The process is started again and is
\* ready to call: its constructor finds root/d in place.
Kill(p) ==
  /\ crashes < MaxCrashes
  /\ pc[p] \notin {"idle", "done"}
  /\ crashes' = crashes + 1
  /\ killed' = [killed EXCEPT ![p] = [at |-> pc[p], key |-> arg[p].key]]
  /\ LET f == IF tmpFile[p].t = "none" THEN NoFile
              ELSE [tmpFile[p] EXCEPT
                      !.lost = pc[p] \in {"p_write", "p_fsync", "p_lock", "p_rename"}]
     IN /\ dirD' = [k \in Names |-> Settle(dirD[k], p, f)]
        /\ dirDisk' = [k \in Names |-> Settle(dirDisk[k], p, f)]
        /\ rootTmp' = [n \in TmpNames |-> Settle(rootTmp[n], p, f)]
        /\ rd' = [g \in Procs |->
                    IF g = p THEN NoRd ELSE [rd[g] EXCEPT !.file = Settle(rd[g].file, p, f)]]
  /\ flk' = [flk EXCEPT ![p] = "none"]
  /\ pc' = [pc EXCEPT ![p] = "idle"]
  /\ arg' = [arg EXCEPT ![p] = NoArg]
  /\ result' = [result EXCEPT ![p] = NoResult]
  /\ tmpFile' = [tmpFile EXCEPT ![p] = NoFile]
  /\ tmpPath' = [tmpPath EXCEPT ![p] = 0]
  /\ todo' = [todo EXCEPT ![p] = {}]
  /\ cur' = cur \ {p}
  /\ UNCHANGED <<absval, lastMut, acked>>
  /\ UNCHANGED <<thr, sig, bhist, boot, once, reg>>
  /\ Hist

\* The kernel writes the directory block of root/d back on its own: the
\* entry of one name reaches stable storage without any fsync.
WritebackDir(k) ==
  /\ dirDisk[k] # dirD[k]
  /\ dirDisk' = [dirDisk EXCEPT ![k] = dirD[k]]
  /\ UNCHANGED <<dirD, rootTmp, flk, pc, arg, tmpPath, tmpFile, result, rd, todo,
                 killed, crashes>>
  /\ NoMutation
  /\ UNCHANGED <<thr, sig, bhist, boot, once, reg>>
  /\ Hist

\* What is left of an inode after a power loss: its bytes when they were
\* forced to stable storage, otherwise any prefix of them.
AfterLoss(f) ==
  IF f.t = "none" THEN {NoFile}
  ELSE {[t |-> "file", data |-> d, synced |-> TRUE, lost |-> f.lost] :
          d \in IF f.synced THEN {f.data} ELSE Prefixes(f.data)}

\* Power is lost: every process dies, and what root/d holds after the reboot
\* is what was on stable storage.  A temp file may or may not survive.
PowerLoss ==
  /\ crashes < MaxCrashes
  /\ crashes' = crashes + 1
  /\ \E nd \in [Names -> {dirDisk[k] : k \in Names} \cup
                          UNION {AfterLoss(Deref(dirDisk[k])) : k \in Names}] :
       /\ \A k \in Names : nd[k] \in AfterLoss(Deref(dirDisk[k]))
       /\ dirD' = nd
       /\ dirDisk' = nd
       /\ absval' = [k \in Names |->
                       IF nd[k].t = "none" THEN Absent ELSE Held(nd[k].data)]
  /\ \E keep \in SUBSET {n \in TmpNames : rootTmp[n].t # "none"} :
       rootTmp' = [n \in TmpNames |-> IF n \in keep THEN NewFile ELSE NoFile]
  /\ flk' = [p \in Procs |-> "none"]
  /\ pc' = [p \in Procs |-> "idle"]
  /\ arg' = [p \in Procs |-> NoArg]
  /\ result' = [p \in Procs |-> NoResult]
  /\ tmpFile' = [p \in Procs |-> NoFile]
  /\ tmpPath' = [p \in Procs |-> 0]
  /\ rd' = [p \in Procs |-> NoRd]
  /\ todo' = [p \in Procs |-> {}]
  /\ lastMut' = [k \in Names |-> 0]
  /\ cur' = {}
  /\ UNCHANGED <<acked, killed>>
  /\ UNCHANGED <<thr, sig, bhist, boot, once, reg>>
  /\ Hist

\* ----------------------------------------------------------- specification
\* Outcomes of a system call: it succeeds, or it may also fail for a reason
\* outside the store (no space, input/output error, no descriptor left).
NoFault == {TRUE}
MayFail == BOOLEAN

\* Names and masks the callers of this specification pass.
CallNames == {"CurrentRoute", "Unlisted"}
CallMasks == {{"CLEAR_ON_IGNITION_ON"}}
HotNames == {"CurrentRoute"}
ClearMasks == {{"PERSISTENT"}, {"CLEAR_ON_MANAGER_START"}, {"CLEAR_ON_IGNITION_ON"},
               {"CLEAR_ON_IGNITION_OFF"}, Tags}

\* put, get and remove of several processes.
Next ==
  \E p \in Callers :
    \/ \E k \in CallNames, v \in Payloads : StartPut(p, k, v, NoFault)
    \/ WriteTmp(p, NoFault)
    \/ FsyncTmp(p, NoFault)
    \/ LockEx(p)
    \/ RenameTmp(p, NoFault)
    \/ FsyncDirPut(p, NoFault)
    \/ CloseUnlink(p)
    \/ \E k \in CallNames : StartRemove(p, k)
    \/ UnlinkKey(p, NoFault)
    \/ FsyncDirRemove(p, NoFault)
    \/ \E k \in CallNames : GetOpen(p, k)
    \/ ReadFile(p)
    \/ Return(p)

Spec == Init /\ [][Next]_vars

\* The operations that take the lock: put, remove, readAll and clearAll.
NextLock ==
  \E p \in Callers :
    \/ \E k \in CallNames : StartPut(p, k, <<1, 1>>, NoFault)
    \/ WriteTmp(p, NoFault)
    \/ FsyncTmp(p, NoFault)
    \/ LockEx(p)
    \/ RenameTmp(p, NoFault)
    \/ FsyncDirPut(p, NoFault)
    \/ CloseUnlink(p)
    \/ \E k \in CallNames : StartRemove(p, k)
    \/ UnlinkKey(p, NoFault)
    \/ FsyncDirRemove(p, NoFault)
    \/ StartReadAll(p)
    \/ LockSh(p)
    \/ ScanEntry(p)
    \/ ScanEnd(p)
    \/ \E m \in CallMasks : StartClearAll(p, m)
    \/ ClearStep(p)
    \/ ClearFsync(p, NoFault)
    \/ Return(p)

SpecLock == Init /\ [][NextLock]_vars

\* The same calls, with the history of the mutators in lock order.
SpecOrder == InitTracked /\ [][NextLock]_vars

\* put and get with kills, spontaneous write-back and power loss.
NextCrash ==
  \/ \E p \in Callers :
       \/ \E k \in HotNames, v \in Payloads : StartPut(p, k, v, NoFault)
       \/ WriteTmp(p, NoFault)
       \/ FsyncTmp(p, NoFault)
       \/ LockEx(p)
       \/ RenameTmp(p, NoFault)
       \/ FsyncDirPut(p, NoFault)
       \/ CloseUnlink(p)
       \/ Return(p)
       \/ Kill(p)
  \/ \E k \in Names : WritebackDir(k)
  \/ PowerLoss

SpecCrash == Init /\ [][NextCrash]_vars

\* A store that earlier puts have filled: every name of `present` has a
\* file holding a whole payload, written, synced and renamed, the directory
\* synced after it.
Stored(v) == [t |-> "file", data |-> v, synced |-> TRUE, lost |-> FALSE]

InitFilled ==
  /\ InitAside
  /\ \E present \in SUBSET Names :
       /\ dirD = [k \in Names |-> IF k \in present THEN Stored(<<1, 1>>) ELSE NoFile]
       /\ dirDisk = dirD
       /\ absval = [k \in Names |-> IF k \in present THEN Held(<<1, 1>>) ELSE Absent]
  /\ rootTmp = [n \in TmpNames |-> NoFile]
  /\ flk = [p \in Procs |-> "none"]
  /\ pc = [p \in Procs |-> "idle"]
  /\ arg = [p \in Procs |-> NoArg]
  /\ tmpPath = [p \in Procs |-> 0]
  /\ tmpFile = [p \in Procs |-> NoFile]
  /\ result = [p \in Procs |-> NoResult]
  /\ rd = [p \in Procs |-> NoRd]
  /\ todo = [p \in Procs |-> {}]
  /\ lastMut = [k \in Names |-> 0]
  /\ acked = [k \in Names |-> Absent]
  /\ cur = {}
  /\ seen = [p \in Procs |-> {}]
  /\ snaps = [p \in Procs |-> {}]
  /\ touched = {}
  /\ model = Untracked
  /\ killed = [p \in Procs |-> NotKilled]
  /\ crashes = 0

\* clearAll with every mask of ClearMasks on a filled store, beside puts.
NextClear ==
  \E p \in Callers :
    \/ \E k \in HotNames : StartPut(p, k, <<2, 2>>, NoFault)
    \/ WriteTmp(p, NoFault)
    \/ FsyncTmp(p, NoFault)
    \/ LockEx(p)
    \/ RenameTmp(p, NoFault)
    \/ FsyncDirPut(p, NoFault)
    \/ CloseUnlink(p)
    \/ \E m \in ClearMasks : StartClearAll(p, m)
    \/ ClearStep(p)
    \/ ClearFsync(p, NoFault)
    \/ Return(p)

SpecClear == InitFilled /\ [][NextClear]_vars

\* put, remove, get and readAll of one name on a filled store; the payloads
\* include the empty one.
GetPayloads == {<<>>, <<1, 1>>}

NextRemove ==
  \E p \in Callers :
    \/ \E k \in HotNames, v \in GetPayloads : StartPut(p, k, v, NoFault)
    \/ WriteTmp(p, NoFault)
    \/ FsyncTmp(p, NoFault)
    \/ LockEx(p)
    \/ RenameTmp(p, NoFault)
    \/ FsyncDirPut(p, NoFault)
    \/ CloseUnlink(p)
    \/ \E k \in HotNames : StartRemove(p, k)
    \/ UnlinkKey(p, NoFault)
    \/ FsyncDirRemove(p, NoFault)
    \/ \E k \in HotNames : GetOpen(p, k)
    \/ ReadFile(p)
    \/ StartReadAll(p)
    \/ LockSh(p)
    \/ ScanEntry(p)
    \/ ScanEnd(p)
    \/ Return(p)

SpecRemove == InitFilled /\ [][NextRemove]_vars

\* A store in which the name of HotNames has no file, an empty file or a file
\* with a payload, and nobody is writing.
InitStill ==
  /\ InitAside
  /\ \E f \in {NoFile, Stored(<<>>), Stored(<<1, 1>>)} :
       /\ dirD = [k \in Names |-> IF k \in HotNames THEN f ELSE NoFile]
       /\ dirDisk = dirD
       /\ absval = [k \in Names |->
                      IF k \in HotNames /\ f # NoFile THEN Held(f.data) ELSE Absent]
  /\ rootTmp = [n \in TmpNames |-> NoFile]
  /\ flk = [p \in Procs |-> "none"]
  /\ pc = [p \in Procs |-> "idle"]
  /\ arg = [p \in Procs |-> NoArg]
  /\ tmpPath = [p \in Procs |-> 0]
  /\ tmpFile = [p \in Procs |-> NoFile]
  /\ result = [p \in Procs |-> NoResult]
  /\ rd = [p \in Procs |-> NoRd]
  /\ todo = [p \in Procs |-> {}]
  /\ lastMut = [k \in Names |-> 0]
  /\ acked = [k \in Names |-> Absent]
  /\ cur = {}
  /\ seen = [p \in Procs |-> {}]
  /\ snaps = [p \in Procs |-> {}]
  /\ touched = {}
  /\ model = Untracked
  /\ killed = [p \in Procs |-> NotKilled]
  /\ crashes = 0

\* Blocking gets of the threads of one process and the signals delivered to
\* it, on a store nobody writes.
NextBlock ==
  \/ \E t \in Threads :
       \/ \E k \in HotNames : BStart(t, k)
       \/ InstallInt(t)
       \/ InstallTerm(t)
       \/ TestExit(t)
       \/ Poll(t)
       \/ RestoreInt(t)
       \/ RestoreTerm(t)
       \/ BReturn(t)
  \/ \E s \in {"int", "term"} : Signal(s)

SpecBlock == InitStill /\ [][NextBlock]_vars

\* The blocking gets of one thread, the signals delivered to its process, and
\* another process that puts and removes the name.
Waiters == {1}
Writers == {1}

NextWait ==
  \/ \E t \in Waiters :
       \/ \E k \in HotNames : BStart(t, k)
       \/ InstallInt(t)
       \/ InstallTerm(t)
       \/ TestExit(t)
       \/ Poll(t)
       \/ RestoreInt(t)
       \/ RestoreTerm(t)
       \/ BReturn(t)
  \/ \E s \in {"int", "term"} : Signal(s)
  \/ \E p \in Writers :
       \/ \E k \in HotNames, v \in GetPayloads : StartPut(p, k, v, NoFault)
       \/ WriteTmp(p, NoFault)
       \/ FsyncTmp(p, NoFault)
       \/ LockEx(p)
       \/ RenameTmp(p, NoFault)
       \/ FsyncDirPut(p, NoFault)
       \/ CloseUnlink(p)
       \/ \E k \in HotNames : StartRemove(p, k)
       \/ UnlinkKey(p, NoFault)
       \/ FsyncDirRemove(p, NoFault)
       \/ Return(p)

SpecWait == Init /\ [][NextWait]_vars

\* The statements of a blocking get after its first: the thread that is
\* inside the call keeps running (sleep_for returns after 100 ms).
BProceed(t) ==
  \/ InstallInt(t)
  \/ InstallTerm(t)
  \/ TestExit(t)
  \/ Poll(t)
  \/ RestoreInt(t)
  \/ RestoreTerm(t)
  \/ BReturn(t)

\* SpecWait with the poll loop scheduled fairly; the writer and the signals
\* may stop at any time.
SpecLive == Init /\ [][NextWait]_vars /\ \A t \in Waiters : WF_vars(BProceed(t))

\* Three processes, each putting one payload under a name of its own, the
\* third of them also calling readAll.
ScanName(p) == CASE p = 1 -> "Unlisted" [] p = 2 -> "CurrentRoute" [] OTHER -> "AthenadPid"
ScanReaders == {3}

NextScan ==
  \/ \E p \in Procs :
       \/ StartPut(p, ScanName(p), <<1, 1>>, NoFault)
       \/ WriteTmp(p, NoFault)
       \/ FsyncTmp(p, NoFault)
       \/ LockEx(p)
       \/ RenameTmp(p, NoFault)
       \/ FsyncDirPut(p, NoFault)
       \/ CloseUnlink(p)
       \/ LockSh(p)
       \/ ScanEntry(p)
       \/ ScanEnd(p)
       \/ Return(p)
  \/ \E r \in ScanReaders : StartReadAll(r)

SpecScan == Init /\ [][NextScan]_vars

\* put, remove, readAll and clearAll of two processes when every system call
\* may fail, the calls of FileLock::lock included.
NextFault ==
  \E p \in Callers :
    \/ \E k \in HotNames : StartPut(p, k, <<1, 1>>, MayFail)
    \/ WriteTmp(p, MayFail)
    \/ FsyncTmp(p, MayFail)
    \/ LockEx(p)
    \/ LockFailed(p)
    \/ RenameTmp(p, MayFail)
    \/ FsyncDirPut(p, MayFail)
    \/ CloseUnlink(p)
    \/ \E k \in HotNames : StartRemove(p, k)
    \/ UnlinkKey(p, MayFail)
    \/ FsyncDirRemove(p, MayFail)
    \/ StartReadAll(p)
    \/ LockSh(p)
    \/ ScanEntry(p)
    \/ ScanEnd(p)
    \/ \E m \in CallMasks : StartClearAll(p, m)
    \/ ClearStep(p)
    \/ ClearFsync(p, MayFail)
    \/ Return(p)

SpecFault == InitTracked /\ [][NextFault]_vars

\* The steps of an operation that p has started: a process that is inside a
\* call keeps running until the call returns.
Proceed(p) ==
  \/ WriteTmp(p, NoFault)
  \/ FsyncTmp(p, NoFault)
  \/ LockEx(p)
  \/ RenameTmp(p, MayFail)
  \/ FsyncDirPut(p, MayFail)
  \/ CloseUnlink(p)
  \/ UnlinkKey(p, MayFail)
  \/ FsyncDirRemove(p, MayFail)
  \/ LockSh(p)
  \/ ScanEntry(p)
  \/ ScanEnd(p)
  \/ ClearStep(p)
  \/ ClearFsync(p, MayFail)
  \/ Return(p)

\* put, remove, readAll and clearAll of two processes, the calls made under
\* the lock failing or not; every process that is inside a call is scheduled
\* again and again.
NextHold ==
  \E p \in Callers :
    \/ \E k \in HotNames : StartPut(p, k, <<1, 1>>, NoFault)
    \/ \E k \in HotNames : StartRemove(p, k)
    \/ StartReadAll(p)
    \/ \E m \in CallMasks : StartClearAll(p, m)
    \/ Proceed(p)

SpecHold ==
  Init /\ [][NextHold]_vars /\ \A p \in Callers : WF_vars(Proceed(p))

\* Registry calls of two processes beside clearAll, on a filled store.
NextRegistry ==
  \E p \in Callers :
    \/ \E k \in Names : CheckKey(p, k)
    \/ \E k \in Names : GetKeyType(p, k)
    \/ \E m \in CallMasks : StartClearAll(p, m)
    \/ LockEx(p)
    \/ ClearStep(p)
    \/ ClearFsync(p, NoFault)
    \/ Return(p)

SpecRegistry == InitFilled /\ [][NextRegistry]_vars

\* The steps of a put or clearAll that p has started.
ProceedClear(p) ==
  \/ WriteTmp(p, NoFault)
  \/ FsyncTmp(p, NoFault)
  \/ LockEx(p)
  \/ RenameTmp(p, NoFault)
  \/ FsyncDirPut(p, MayFail)
  \/ CloseUnlink(p)
  \/ ClearStep(p)
  \/ ClearFsync(p, MayFail)
  \/ Return(p)

\* clearAll on a filled store, called again and again beside puts, the
\* directory fsync failing or not; every process that is inside a call is
\* scheduled again and again.
NextTwice ==
  \E p \in Callers :
    \/ \E k \in HotNames : StartPut(p, k, <<2, 2>>, NoFault)
    \/ \E m \in CallMasks : StartClearAll(p, m)
    \/ ProceedClear(p)

SpecTwice ==
  InitFilled /\ [][NextTwice]_vars /\ \A p \in Callers : WF_vars(ProceedClear(p))

\* getKeyType called by the threads of one process.
NextLookup ==
  \E t \in Threads :
    \/ \E k \in Names : TGetKeyType(t, k)
    \/ TFind(t)
    \/ TInsert(t)
    \/ TReturnKeyType(t)

SpecLookup == Init /\ [][NextLookup]_vars

\* The blocking gets of the threads of one process on a store where the name
\* was never set, and the signals; every thread that is inside a get keeps
\* running.
SpecCancel ==
  Init /\ [][NextBlock]_vars /\ \A t \in Threads : WF_vars(BProceed(t))

\* Puts of two processes and gets beside them when FileLock::lock fails in
\* every call, so that the puts rename without any exclusion.
NextNoLock ==
  \E p \in Callers :
    \/ \E k \in HotNames, v \in Payloads : StartPut(p, k, v, NoFault)
    \/ WriteTmp(p, NoFault)
    \/ FsyncTmp(p, NoFault)
    \/ LockFailed(p)
    \/ RenameTmp(p, NoFault)
    \/ FsyncDirPut(p, NoFault)
    \/ CloseUnlink(p)
    \/ \E k \in HotNames : GetOpen(p, k)
    \/ ReadFile(p)
    \/ Return(p)

SpecNoLock == Init /\ [][NextNoLock]_vars

\* --------------------------------------------------------------- bootstrap
\* create_params_path, called by the constructor of every store object.  The
\* directory a process makes with mkdtemp([root]/.tmp_XXXXXX) is named after
\* the process: mkdtemp never returns a name that exists.
NoBoot == [root |-> FALSE, d |-> 0, dirs |-> {}, links |-> {}, found |-> {}, err |-> {}]

BootPcs == {"c_check", "c_mkdtemp", "c_symlink", "c_rename"}

\* Nothing of the store proper changes, except the position of p.
BootFrame(p, to) ==
  /\ pc' = [pc EXCEPT ![p] = to]
  /\ UNCHANGED <<rootTmp, flk, arg, tmpPath, tmpFile, result, rd, todo, killed, crashes>>
  /\ NoMutation
  /\ UNCHANGED <<thr, sig, bhist, reg>>
  /\ Hist

\* create_params_path returns true: ensure_params_path returns, call_once
\* (if it is the one that called) sets the flag, the constructor returns.
BootDone(p) ==
  /\ once' = [once EXCEPT ![p] = IF @ = "in" THEN "yes" ELSE @]
  /\ BootFrame(p, "idle")

\* The mutant: call_once records the call as done although it threw.
BootThrowRecorded(p) ==
  /\ once' = [once EXCEPT ![p] = IF @ = "in" THEN "yes" ELSE @]
  /\ BootFrame(p, "c_failed")

\* create_params_path returns false: ensure_params_path throws
\* std::runtime_error, which leaves call_once with the flag unset and then
\* the constructor; no object is made.
BootThrow(p) ==
  /\ once' = [once EXCEPT ![p] = IF @ = "in" THEN "no" ELSE @]
  /\ BootFrame(p, "c_failed")

\* A store object is constructed, the first of the process or a further one,
\* with Params(path) or (dflt) with Params(), whose once_flag is not set:
\* if (!util::file_exists(param_path) && !util::create_directories(param_path, 0775))
\*   return false;
BootRoot(p, dflt, oks) ==
  /\ pc[p] \in {"new", "idle", "c_failed"}
  /\ UNCHANGED <<dirD, dirDisk>>
  /\ dflt => once[p] = "no"
  /\ \E ok \in oks :
       IF ok \/ boot.root
       THEN /\ boot' = [boot EXCEPT !.root = TRUE, !.found = @ \ {p}, !.err = @ \ {p}]
            /\ once' = [once EXCEPT ![p] = IF dflt THEN "in" ELSE @]
            /\ BootFrame(p, "c_check")
       ELSE /\ boot' = [boot EXCEPT !.found = @ \ {p}, !.err = @ \cup {p}]
            /\ BootFrame(p, "c_failed")
            /\ UNCHANGED once

\* Params() when the once_flag is set: call_once returns at once.
BootSkip(p) ==
  /\ pc[p] \in {"new", "idle", "c_failed"}
  /\ UNCHANGED <<dirD, dirDisk, once>>
  /\ once[p] = "yes"
  /\ boot' = [boot EXCEPT !.found = @ \ {p}, !.err = @ \ {p}]
  /\ BootFrame(p, "idle")

\* if (!util::file_exists(key_path)) { ... } return true;
BootCheck(p) ==
  /\ pc[p] = "c_check"
  /\ UNCHANGED <<dirD, dirDisk>>
  /\ IF boot.d # 0
     THEN /\ boot' = [boot EXCEPT !.found = @ \cup {p}]
          /\ BootDone(p)
     ELSE /\ UNCHANGED <<boot, once>>
          /\ BootFrame(p, "c_mkdtemp")

\* char *tmp_dir = mkdtemp(...); if (tmp_dir == NULL) return false;
BootMkdtemp(p, oks) ==
  /\ pc[p] = "c_mkdtemp"
  /\ UNCHANGED <<dirD, dirDisk>>
  /\ \E ok \in oks :
       IF ok
       THEN /\ boot' = [boot EXCEPT !.dirs = @ \cup {p}]
            /\ BootFrame(p, "c_symlink")
            /\ UNCHANGED once
       ELSE /\ boot' = [boot EXCEPT !.err = @ \cup {p}]
            /\ BootThrow(p)

\* if (symlink(tmp_dir, link_path.c_str()) != 0) return false;
BootSymlink(p, oks) ==
  /\ pc[p] = "c_symlink"
  /\ UNCHANGED <<dirD, dirDisk>>
  /\ \E ok \in oks :
       IF ok
       THEN /\ boot' = [boot EXCEPT !.links = @ \cup {p}]
            /\ BootFrame(p, "c_rename")
            /\ UNCHANGED once
       ELSE /\ boot' = [boot EXCEPT !.err = @ \cup {p}]
            /\ BootThrow(p)

\* The mutant: rename refuses a new path that exists, and the call fails.
BootRenameNoReplace(p, oks) ==
  /\ pc[p] = "c_rename"
  /\ UNCHANGED <<dirD, dirDisk>>
  /\ \E ok \in oks :
       IF ok /\ boot.d = 0
       THEN /\ boot' = [boot EXCEPT !.d = p, !.links = @ \ {p}]
            /\ BootDone(p)
       ELSE /\ boot' = [boot EXCEPT !.err = @ \cup {p}]
            /\ BootThrow(p)

\* if (rename(link_path.c_str(), key_path.c_str()) != 0 && errno != EEXIST)
\*   return false;
\* rename(2) moves the symlink; a new path that exists and is a symlink is
\* replaced atomically, which is no error (EEXIST is the error of a new path
\* that is a directory with entries, which root/d never is).  From then on
\* root/d names the directory of p, which is empty: the files of the
\* directory it named before stay in that directory and are reached by no
\* path of the store.
BootRename(p, oks) ==
  /\ pc[p] = "c_rename"
  /\ \E ok \in oks :
       IF ok
       THEN /\ boot' = [boot EXCEPT !.d = p, !.links = @ \ {p}]
            /\ IF boot.d \in {0, p}
               THEN UNCHANGED <<dirD, dirDisk>>
               ELSE /\ dirD' = [k \in Names |-> NoFile]
                    /\ dirDisk' = [k \in Names |-> NoFile]
            /\ BootDone(p)
       ELSE /\ boot' = [boot EXCEPT !.err = @ \cup {p}]
            /\ UNCHANGED <<dirD, dirDisk>>
            /\ BootThrow(p)

\* No store object exists yet, and no root.
InitBoot ==
  /\ thr = [t \in Threads |-> NoThr]
  /\ sig = InitSig
  /\ bhist = [t \in Threads |-> NoBHist]
  /\ boot = NoBoot
  /\ once = [p \in Procs |-> "no"]
  /\ reg = [p \in Procs |-> {}]
  /\ dirD = [k \in Names |-> NoFile]
  /\ dirDisk = [k \in Names |-> NoFile]
  /\ rootTmp = [n \in TmpNames |-> NoFile]
  /\ flk = [p \in Procs |-> "none"]
  /\ pc = [p \in Procs |-> "new"]
  /\ arg = [p \in Procs |-> NoArg]
  /\ tmpPath = [p \in Procs |-> 0]
  /\ tmpFile = [p \in Procs |-> NoFile]
  /\ result = [p \in Procs |-> NoResult]
  /\ rd = [p \in Procs |-> NoRd]
  /\ todo = [p \in Procs |-> {}]
  /\ absval = [k \in Names |-> Absent]
  /\ lastMut = [k \in Names |-> 0]
  /\ acked = [k \in Names |-> Absent]
  /\ cur = {}
  /\ seen = [p \in Procs |-> {}]
  /\ snaps = [p \in Procs |-> {}]
  /\ touched = {}
  /\ model = Untracked
  /\ killed = [p \in Procs |-> NotKilled]
  /\ crashes = 0

\* Every process constructs store objects, racing for the first bootstrap of
\* the root; one of them puts as soon as it has its object.
NextBoot ==
  \/ \E p \in Procs :
       \/ BootRoot(p, FALSE, NoFault)
       \/ BootCheck(p)
       \/ BootMkdtemp(p, NoFault)
       \/ BootSymlink(p, NoFault)
       \/ BootRename(p, NoFault)
  \/ \E p \in Writers :
       \/ \E k \in HotNames, v \in Payloads : StartPut(p, k, v, NoFault)
       \/ WriteTmp(p, NoFault)
       \/ FsyncTmp(p, NoFault)
       \/ LockEx(p)
       \/ RenameTmp(p, NoFault)
       \/ FsyncDirPut(p, NoFault)
       \/ CloseUnlink(p)
       \/ Return(p)

SpecBoot == InitBoot /\ [][NextBoot]_vars

\* Constructions with Params() and with Params(path) in which any call of
\* the bootstrap may fail.
NextInit ==
  \E p \in Callers :
    \/ \E dflt \in BOOLEAN : BootRoot(p, dflt, MayFail)
    \/ BootSkip(p)
    \/ BootCheck(p)
    \/ BootMkdtemp(p, MayFail)
    \/ BootSymlink(p, MayFail)
    \/ BootRename(p, MayFail)

SpecInit == InitBoot /\ [][NextInit]_vars

\* ------------------------------------------------------------------ claims
PutDoneOk(p) == pc[p] = "done" /\ arg[p].op = "put" /\ result[p].rc = 0
GetDone(g) == pc[g] = "done" /\ arg[g].op = "get"

\* C1  Round trip: once put(name, v) has returned success and no rename or
\* unlink has touched name after the rename of that put, name reads as v, and
\* every get(name) that opened the file since then has returned exactly v.
C1_RoundTrip ==
  \A p \in Procs :
    (PutDoneOk(p) /\ lastMut[arg[p].key] = p)
      => /\ Visible(arg[p].key) = arg[p].val
         /\ \A g \in cur :
              (GetDone(g) /\ arg[g].key = arg[p].key) => result[g].val = arg[p].val

\* C2  Atomic visibility: a get that ran while puts to its name did returns
\* the value committed under the name when it started or since (the empty
\* string while the name was absent), or the payload of one of those puts:
\* never a truncated or mixed value.
C2_AtomicVisibility ==
  \A g \in Procs : GetDone(g) => result[g].val \in seen[g]

\* The entry of root/d/<k> is what the last rename or unlink of k committed.
Committed(k) ==
  /\ (dirD[k].t # "none") <=> absval[k].has
  /\ Visible(k) = absval[k].val

IsLost(x) == x.t # "none" /\ Deref(x).lost

\* C3  Crash before commit: when a put was killed after the fsync of its temp
\* file and before its rename, its name keeps the value that was committed
\* (or stays absent), and no entry of root/d refers to the temp file of a
\* killed put.
C3_CrashBeforeCommit ==
  \A p \in Procs :
    killed[p].at \in {"p_lock", "p_rename"}
      => /\ Committed(killed[p].key)
         /\ \A k \in Names : ~IsLost(dirD[k])

\* An inode that holds a whole payload, all of it on stable storage.
Complete(f) == f.synced /\ f.data \in Payloads

\* C4  No torn value after power loss: every entry of root/d, the ones on
\* stable storage and the ones visible now, refers to an inode that holds a
\* whole payload which was forced to stable storage.
C4_NoTornValue ==
  \A k \in Names :
    /\ dirD[k].t # "none" => Complete(Deref(dirD[k]))
    /\ dirDisk[k].t # "none" => Complete(Deref(dirDisk[k]))

\* C5  Durability: while the value v of a put that returned success is the
\* last change of its name, the entry of the name on stable storage refers to
\* an inode holding v on stable storage, before and after a power loss.
C5_Durable ==
  \A k \in Names :
    acked[k].has
      => /\ dirDisk[k].t # "none"
         /\ Deref(dirDisk[k]).synced
         /\ Deref(dirDisk[k]).data = acked[k].val
         /\ Visible(k) = acked[k].val

PutDone(p) == pc[p] = "done" /\ arg[p].op = "put"

\* C6  Two puts to one name that have both completed, the last change of the
\* name being the rename of one of them: the name holds exactly the payload
\* of the put that renamed last.
C6_TwoPuts ==
  \A p, q \in Procs :
    (/\ p # q
     /\ PutDoneOk(p)
     /\ PutDone(q)
     /\ arg[p].key = arg[q].key
     /\ lastMut[arg[p].key] = p)
      => /\ dirD[arg[p].key].t # "none"
         /\ Visible(arg[p].key) = arg[p].val

\* The positions inside the section that put, remove and clearAll run under
\* the exclusive lock, and the one readAll runs under the shared lock.
ExSection == {"p_rename", "p_fsyncdir", "r_unlink", "r_fsyncdir", "c_loop"}
ShSection == {"ra_scan"}

\* C7  Mutual exclusion: at most one caller at a time is inside the locked
\* section of put (rename, directory fsync), remove or clearAll.
C7_MutualExclusion ==
  \A p, q \in Procs : (pc[p] \in ExSection /\ pc[q] \in ExSection) => p = q

\* A put is inside its locked section while another caller waits for the lock.
C7_Witness ==
  \E p, q \in Procs :
    /\ pc[p] \in {"p_rename", "p_fsyncdir"}
    /\ pc[q] \in {"p_lock", "r_lock", "c_lock"}

\* C8  Shared/exclusive compatibility: no readAll is inside its scan, holding
\* the shared lock, while a put, remove or clearAll is inside its locked
\* section, holding the exclusive one; several readAll may scan together.
C8_SharedExclusive ==
  \A p, q \in Procs :
    /\ ~(pc[p] \in ShSection /\ pc[q] \in ExSection)
    /\ ~(flk[p] = "sh" /\ flk[q] = "ex")
    /\ pc[p] \in ShSection => flk[p] = "sh"
    /\ pc[p] \in ExSection => flk[p] = "ex"

\* Two readAll scan at the same time while nobody holds the exclusive lock.
C8_Witness ==
  \E p, q \in Procs : p # q /\ pc[p] \in ShSection /\ pc[q] \in ShSection

ReadAllDone(r) == pc[r] = "done" /\ arg[r].op = "readAll"

\* C9  Consistent snapshot: the mapping readAll returns is the full contents
\* of root/d at one instant between the start and the end of the call.
C9_Snapshot ==
  \A r \in Procs : ReadAllDone(r) => result[r].map \in snaps[r]

\* C10  clearAll selectivity: when the loop of clearAll(mask) has ended, no
\* registered key whose category mask shares a bit with mask has a file.
C10_ClearRemoves ==
  \A p \in Procs :
    (pc[p] = "c_loop" /\ todo[p] = {})
      => \A k \in DOMAIN keys :
           MaskAnd(keys[k], arg[p].mask) => dirD[k].t = "none"

\* clearAll(CLEAR_ON_MANAGER_START) has removed the files of CurrentRoute and
\* DoUninstall and has left the one of the PERSISTENT key AthenadPid.
C10_Witness ==
  \E p \in Procs :
    /\ pc[p] = "c_loop" /\ todo[p] = {}
    /\ arg[p].mask = {"CLEAR_ON_MANAGER_START"}
    /\ lastMut["CurrentRoute"] = p /\ dirD["CurrentRoute"].t = "none"
    /\ lastMut["DoUninstall"] = p /\ dirD["DoUninstall"].t = "none"
    /\ dirD["AthenadPid"].t # "none"

\* C11  clearAll selectivity, what is kept: a turn of the loop of
\* clearAll(mask) changes the entry of no name that is not in the registry
\* and of no registered key whose category mask shares no bit with mask.
C11_ClearKeeps ==
  [][\A p \in Procs :
       (pc[p] = "c_loop" /\ todo'[p] # todo[p])
         => \A k \in Names :
              (~checkKey(p, k) \/ ~MaskAnd(Rows(p)[k], arg[p].mask)) => dirD'[k] = dirD[k]]_vars

\* clearAll with every bit set has ended its loop: it unlinked the files of
\* registered keys and the file of the unregistered name is still there.
C11_Witness ==
  \E p \in Procs :
    /\ pc[p] = "c_loop" /\ todo[p] = {}
    /\ arg[p].mask = Tags
    /\ lastMut["AthenadPid"] = p /\ dirD["AthenadPid"].t = "none"
    /\ dirD["Unlisted"].t # "none"

RemoveDone(p) == pc[p] = "done" /\ arg[p].op = "remove"
RemoveDoneOk(p) == RemoveDone(p) /\ result[p].rc = 0

\* C12  After remove(name) has returned success and while no rename has put
\* a file under name since its unlink: name has no file, every get(name)
\* opened since then has returned the empty string, and the mapping of a
\* readAll during which name never had a file does not contain name.
C12_RemoveThenAbsent ==
  \A p \in Procs :
    (RemoveDoneOk(p) /\ lastMut[arg[p].key] = p)
      => /\ dirD[arg[p].key].t = "none"
         /\ \A g \in cur :
              (GetDone(g) /\ arg[g].key = arg[p].key) => result[g].val = <<>>
         /\ \A r \in Procs :
              (ReadAllDone(r) /\ \A m \in snaps[r] : arg[p].key \notin DOMAIN m)
                => arg[p].key \notin DOMAIN result[r].map

\* remove has unlinked a file and returned 0; a readAll that started after
\* that has returned a mapping with another name in it.
C12_Witness ==
  \E p, r \in Procs :
    /\ RemoveDoneOk(p) /\ lastMut[arg[p].key] = p
    /\ ReadAllDone(r) /\ r \in cur
    /\ DOMAIN result[r].map # {}

\* C13  remove(name) when name has no file: the unlink fails, remove returns
\* a non-zero status at once, without the directory fsync, its lock is
\* released, and no entry of root/d, visible or on stable storage, changes.
C13_RemoveAbsentFails ==
  [][\A p \in Procs :
       (pc[p] = "r_unlink" /\ pc'[p] # "r_unlink" /\ dirD[arg[p].key].t = "none")
         => /\ result'[p].rc # 0
            /\ pc'[p] = "done"
            /\ flk'[p] = "none"
            /\ dirD' = dirD
            /\ dirDisk' = dirDisk]_vars

\* The second remove of a name by the process whose first remove unlinked
\* its file has failed, another name still having its file.
C13_Witness ==
  \E p \in Procs :
    /\ RemoveDone(p) /\ result[p].rc # 0 /\ flk[p] = "none"
    /\ lastMut[arg[p].key] = p /\ ~absval[arg[p].key].has
    /\ \E k \in Names : dirD[k].t # "none"

\* The step is one of the get of g: its open, or a read of its file.
GetStep(g) ==
  \/ pc[g] = "idle" /\ arg'[g].op = "get"
  \/ pc[g] = "g_read" /\ (rd'[g].buf # rd[g].buf \/ pc'[g] # "g_read")

\* C14  A non-blocking get whose name has no file returns the empty string
\* from its one attempt to open it; one whose file is empty returns the empty
\* string from its one read; and no step of a get changes root/d, the temp
\* names or the lock.
C14_GetAbsentEmpty ==
  [][\A g \in Procs :
       GetStep(g)
         => /\ (pc[g] = "idle" /\ dirD[arg'[g].key].t = "none")
                 => (pc'[g] = "done" /\ result'[g].val = <<>> /\ result'[g].rc = 0)
            /\ (pc[g] = "g_read" /\ Deref(rd[g].file).data = <<>>)
                 => (pc'[g] = "done" /\ result'[g].val = <<>> /\ result'[g].rc = 0)
            /\ UNCHANGED <<dirD, dirDisk, rootTmp, flk>>]_vars

\* A get has returned the empty string for a name whose file a put of the
\* empty value committed.
C14_Witness ==
  \E g \in cur :
    /\ GetDone(g) /\ result[g].val = <<>>
    /\ absval[arg[g].key] = Held(<<>>)
    /\ dirD[arg[g].key].t = "file" /\ dirD[arg[g].key].data = <<>>

\* C15  A non-blocking get is never blocked by the lock: whoever holds the
\* exclusive or the shared lock, a caller that is free can open the file of
\* its get, a get that has opened its file can take its next step, and a get
\* holds no lock itself.
C15_GetNeverBlocked ==
  \A g \in Callers :
    /\ pc[g] = "idle" => \A k \in HotNames : ENABLED GetOpen(g, k)
    /\ pc[g] = "g_read" => (ENABLED ReadFile(g) /\ flk[g] = "none")

\* A get is in the middle of reading its file while another process is
\* inside the section it runs under the exclusive lock.
C15_Witness ==
  \E g, q \in Procs :
    /\ pc[g] = "g_read" /\ Len(rd[g].buf) > 0
    /\ flk[q] = "ex" /\ pc[q] \in ExSection

\* The blocking get of t has left its loop: it restores the handlers or has
\* returned.
BLeft(t) == thr[t].pc \in {"b_restint", "b_restterm", "b_done"}

\* C16  A blocking get leaves its loop in two cases only: with a non-empty
\* value, which one of its polls read from the file of the name, or with the
\* empty string after params_sig_handler ran on a SIGINT or SIGTERM delivered
\* during the get.
C16_BlockingReturns ==
  \A t \in Threads :
    BLeft(t)
      => \/ thr[t].value # <<>> /\ thr[t].value \in bhist[t].polled
         \/ thr[t].value = <<>> /\ bhist[t].flagged

\* A blocking get has returned a value after a poll that had found nothing.
C16_Witness ==
  \E t \in Threads :
    /\ thr[t].pc = "b_done" /\ thr[t].value # <<>>
    /\ <<>> \in bhist[t].polled
    /\ ~bhist[t].flagged

\* C17  Cancellation of a blocking get: once params_sig_handler has run on a
\* SIGINT or SIGTERM delivered while the get was in its polling loop, the get
\* polls the file at most one more time, and when the name has no value it
\* leaves the loop with the empty string.
C17_Cancellation ==
  \A t \in Threads :
    bhist[t].waitSig
      => /\ bhist[t].polls <= 1
         /\ (BLeft(t) /\ bhist[t].polled \subseteq {<<>>}) => thr[t].value = <<>>

\* C18  Handler restoration: at the step with which a blocking get returns,
\* value found or cancelled, the handlers of SIGINT and SIGTERM are the ones
\* that were installed when the get was called.
C18_HandlersRestored ==
  [][\A t \in Threads :
       (thr[t].pc # "b_done" /\ thr'[t].pc = "b_done")
         => <<sig'.int, sig'.term>> = bhist[t].before]_vars

\* Every process has a store object and none is inside a constructor.
AllBooted == \A p \in Procs : pc[p] \notin BootPcs \cup {"new", "c_failed"}

\* C19  Idempotent bootstrap: no bootstrap call fails, whatever the calls
\* that run beside it; once every process has its store object, root/d
\* exists and refers to one of the directories made; and the steps of a call
\* made while root/d is present change nothing in the file system.
C19_IdempotentBootstrap ==
  [][/\ \A p \in Procs : pc'[p] # "c_failed"
     /\ AllBooted' => boot'.d \in boot'.dirs
     /\ \A p \in Procs :
          (boot.d # 0 /\ pc[p] \in {"new", "idle", "c_check"} /\ pc'[p] \in {"c_check", "idle"}
           /\ pc'[p] # pc[p])
            => /\ pc[p] = "c_check" => pc'[p] = "idle"
               /\ UNCHANGED <<dirD, dirDisk, rootTmp>>
               /\ <<boot'.root, boot'.d, boot'.dirs, boot'.links>>
                    = <<boot.root, boot.d, boot.dirs, boot.links>>]_vars

\* Three processes raced, two of them made a directory, and a call made
\* afterwards found root/d present.
C19_Witness ==
  /\ AllBooted
  /\ Cardinality(boot.dirs) >= 2
  /\ boot.found # {}
  /\ boot.d \in boot.dirs

\* C20  Single published generation: once root/d is present it refers to the
\* same directory for ever, and a value that a successful put committed
\* stays readable under its name until a put or remove changes the name.
C20_SingleGeneration ==
  [][/\ boot.d # 0 => boot'.d = boot.d
     /\ \A k \in Names : acked'[k].has => Visible(k)' = acked'[k].val]_vars

\* C21  Fatal initialization: a construction in which a call of the bootstrap
\* failed ends with the exception and without an object; a process that has
\* an object has root and root/d; the once_flag of Params() is set only by a
\* bootstrap that succeeded, so that after a failure the next Params() runs
\* the bootstrap again.
C21_FatalInit ==
  \A p \in Procs :
    /\ (p \in boot.err /\ pc[p] \notin BootPcs) => pc[p] = "c_failed" /\ once[p] # "in"
    /\ pc[p] = "c_failed" => p \in boot.err
    /\ pc[p] = "idle" => boot.root /\ boot.d # 0
    /\ once[p] = "yes" => boot.root /\ boot.d # 0
    /\ (pc[p] = "c_failed" /\ once[p] = "no") => ENABLED BootRoot(p, TRUE, NoFault)

\* The bootstrap that Params() started failed at the rename, and the flag is
\* not set.
C21_Witness ==
  \E p \in Procs :
    /\ pc[p] = "c_failed"
    /\ p \in boot.err
    /\ p \in boot.links
    /\ once[p] = "no"
    /\ boot.d = 0

\* The four failures of put that the claim C22 names.
PutFailures == {"mkstemp", "write", "fsync", "rename"}

\* C22 as stated: put returns a negative status for each of the four
\* failures, and two puts that failed for different causes returned
\* different statuses.
C22_Distinguishable ==
  \A p, q \in Procs :
    (PutDone(p) /\ result[p].cause \in PutFailures)
      => /\ result[p].rc < 0
         /\ (PutDone(q) /\ result[q].cause \in PutFailures
               /\ result[q].cause # result[p].cause)
              => result[q].rc # result[p].rc

\* C22 as amended: put returns a negative status for each of the four
\* failures; the status is -20 exactly for the short write and -1 for the
\* three others, which the status does not tell apart.
C22_FailureStatus ==
  \A p \in Procs :
    (PutDone(p) /\ result[p].cause \in PutFailures)
      => /\ result[p].rc < 0
         /\ result[p].rc = -20 <=> result[p].cause = "write"
         /\ result[p].cause # "write" => result[p].rc = -1

\* One put has returned after a short write, another after a failed rename.
C22_Witness ==
  \E p, q \in Procs :
    /\ PutDone(p) /\ result[p].cause = "write" /\ result[p].rc = -20
    /\ PutDone(q) /\ result[q].cause = "rename" /\ result[q].rc = -1

\* C23  Temp-file cleanup: at the step with which put returns, whatever its
\* status, every name of root that refers to the file this put created is
\* removed; a put whose mkstemp failed created none.
C23_TempCleanup ==
  [][\A p \in Procs :
       (arg'[p].op = "put" /\ pc[p] # "done" /\ pc'[p] = "done")
         => \A n \in TmpNames : /\ rootTmp'[n] # Ref(p)
                                 /\ rootTmp[n] = Ref(p) => rootTmp'[n] = NoFile]_vars

\* A put has returned with a failure status after its temp file was made,
\* and root holds no temp file.
C23_Witness ==
  \E p \in Procs :
    /\ PutDone(p)
    /\ result[p].cause \in {"write", "fsync", "rename", "fsyncdir"}
    /\ \A n \in TmpNames : rootTmp[n] = NoFile

\* C24  State unchanged on failure: a put or remove that returns a failure
\* status has made no step that changed the value readers see for any name.
C24_FailureLeavesState ==
  \A p \in Procs :
    (pc[p] = "done" /\ arg[p].op \in {"put", "remove"} /\ result[p].rc # 0)
      => p \notin touched

\* C25  Lock release: a process that is not inside a call, or is back from
\* one, holds no lock, whichever path the call took; and a lock that is held
\* is released, so that a caller that waits for it finds it free.
C25_LockReleased ==
  /\ [](\A p \in Procs : pc[p] \in {"idle", "done", "p_close"} => flk[p] = "none")
  /\ \A p \in Procs : (flk[p] # "none") ~> (flk[p] = "none")

\* A put has returned after its rename failed under the lock, a remove after
\* its unlink failed, and nobody holds the lock.
C25_Witness ==
  /\ \E p \in Procs : PutDone(p) /\ result[p].cause = "rename"
  /\ \E p \in Procs : RemoveDone(p) /\ result[p].cause = "unlink"
  /\ \A p \in Procs : flk[p] = "none"

LockPcs == {"p_lock", "r_lock", "c_lock", "ra_lock"}

\* C26  Best-effort locking: a call whose FileLock::lock failed is not held
\* up by the lock of anybody, goes through its locked section, and returns
\* what its own file-system calls gave: status 0 when none of them failed,
\* the rename or the unlink made, the mapping of readAll filled in.
C26_BestEffort ==
  \A p \in Procs :
    /\ (pc[p] \in ExSection \cup ShSection /\ result[p].nolock) => ENABLED Proceed(p)
    /\ (pc[p] = "done" /\ result[p].nolock)
         => /\ result[p].cause = "" => result[p].rc = 0
            /\ result[p].rc = 0 /\ arg[p].op \in {"put", "remove"}
                 => lastMut[arg[p].key] # 0
            /\ result[p].rc # 0 => result[p].cause \in {"rename", "unlink", "fsyncdir"}

\* A put whose lock failed has renamed its file and returned 0 while another
\* process holds the exclusive lock.
C26_Witness ==
  \E p, q \in Procs :
    /\ PutDoneOk(p) /\ result[p].nolock
    /\ lastMut[arg[p].key] = p
    /\ flk[q] = "ex"

\* C27  Registry immutability: no step changes the answer of checkKey for any
\* name in any process, nor the rows that clearAll visits.
C27_RegistryImmutable ==
  [][\A p \in Procs :
       /\ \A k \in Names : checkKey(p, k)' = checkKey(p, k)
       /\ (DOMAIN Rows(p))' = DOMAIN Rows(p)]_vars

\* The moves of a put from statement to statement.
PutOrder ==
  {<<"idle", "p_write">>, <<"idle", "done">>, <<"p_write", "p_fsync">>,
   <<"p_write", "p_close">>, <<"p_fsync", "p_lock">>, <<"p_fsync", "p_close">>,
   <<"p_lock", "p_rename">>, <<"p_rename", "p_fsyncdir">>, <<"p_rename", "p_close">>,
   <<"p_fsyncdir", "p_close">>, <<"p_close", "done">>, <<"done", "idle">>}

\* C28  Step order of put: a put goes through mkstemp in root, write, fsync
\* of the temp file, lock, rename, fsync of root/d, unlock, close and unlink,
\* in this order, leaving early only to close and unlink; it renames only a
\* temp file whose whole value it has written and whose fsync succeeded; it
\* holds no lock while it creates, writes and syncs the temp file, nor when
\* it closes and unlinks.
C28_StepOrder ==
  [][\A p \in Procs :
       ((arg[p].op = "put" \/ arg'[p].op = "put") /\ pc'[p] # pc[p])
         => /\ <<pc[p], pc'[p]>> \in PutOrder
            /\ pc'[p] = "p_write" => \E n \in TmpNames : rootTmp'[n] = Ref(p)
            /\ pc[p] = "p_rename"
                 => /\ tmpFile[p].synced /\ tmpFile[p].data = arg[p].val
                    /\ flk[p] = "ex" \/ result[p].nolock
            /\ (pc[p] = "p_fsyncdir" /\ result'[p].rc = 0) => dirDisk' = dirD
            /\ pc'[p] \notin {"p_rename", "p_fsyncdir"} => flk'[p] = "none"]_vars

\* A put has gone through all its steps: its value is under the name, the
\* entry is on stable storage, the lock is free and no temp file is left.
C28_Witness ==
  \E p \in Procs :
    /\ PutDoneOk(p)
    /\ ~result[p].nolock
    /\ lastMut[arg[p].key] = p
    /\ dirDisk[arg[p].key] = Stored(arg[p].val)
    /\ flk[p] = "none"
    /\ \A n \in TmpNames : rootTmp[n] = NoFile

\* C29  Linearizability of the mutators: whenever no put, remove or clearAll
\* is inside its locked section, root/d holds exactly the map obtained by
\* applying the mutators so far one at a time in the order in which they
\* took the exclusive lock.
C29_Linearizable ==
  (\A p \in Procs : pc[p] \notin ExSection)
    => \A k \in Names :
         /\ model[k].has <=> dirD[k].t # "none"
         /\ model[k].has => Visible(k) = model[k].val

\* The blocking get of t is in progress / has its return value.
BInProgress(t) == thr[t].pc \in BlockPcs
BReturned(t) == thr[t].pc = "b_done"

\* C30 as stated: a blocking get that is in progress when the name holds a
\* non-empty value for good eventually returns a non-empty value.
C30_ReturnsValue ==
  \A t \in Waiters, k \in HotNames :
    []((BInProgress(t) /\ thr[t].key = k /\ [](Visible(k) # <<>>))
         => <>(BReturned(t) /\ thr[t].value # <<>>))

\* C30 as amended: such a get eventually returns, and what it returns is
\* non-empty unless SIGINT or SIGTERM reached params_sig_handler while the
\* get was in progress.
C30_ReturnsValueOrCancelled ==
  \A t \in Waiters, k \in HotNames :
    []((BInProgress(t) /\ thr[t].key = k /\ [](Visible(k) # <<>>))
         => <>(BReturned(t) /\ (thr[t].value # <<>> \/ bhist[t].flagged)))

\* A get that no signal reached has returned the value that the other
\* process put.
C30_Witness ==
  \E t \in Waiters :
    /\ BReturned(t)
    /\ thr[t].value = <<1, 1>>
    /\ ~bhist[t].flagged
    /\ sig.n = 0
    /\ \E p \in Writers : PutDoneOk(p)

\* C31  Empty value equals absent on read: a put of the empty payload is no
\* short write; when it has returned success and nothing has changed the name
\* since its rename, the name has a file, the file reads as the empty string,
\* and every get of the name opened since has returned what it returns for a
\* name never set; and a blocking get that no signal reached leaves its loop
\* only with a non-empty value.
C31_EmptyReadsAsAbsent ==
  /\ \A p \in Procs :
       /\ (PutDone(p) /\ arg[p].val = <<>>) => result[p].cause # "write"
       /\ (PutDoneOk(p) /\ arg[p].val = <<>> /\ lastMut[arg[p].key] = p)
            => /\ dirD[arg[p].key].t # "none"
               /\ Visible(arg[p].key) = <<>>
               /\ \A g \in cur :
                    (GetDone(g) /\ arg[g].key = arg[p].key) => result[g] = NoResult
  /\ \A t \in Threads : (BLeft(t) /\ ~bhist[t].flagged) => thr[t].value # <<>>

\* No row of the map of p that the mask of its clearAll matches has a file:
\* the state a clearAll with this mask leaves when its loop has ended.
Cleared(p) ==
  \A k \in DOMAIN Rows(p) : ClearMatches(Rows(p)[k], arg[p].mask) => dirD[k].t = "none"

\* C32  clearAll always completes: a turn of its loop goes on to the next
\* row whether the file of a matching row was there or not; the directory is
\* synced with the step that follows the loop and with no other; that step
\* returns without a status and without the lock; a clearAll that starts on
\* what a clearAll with the same mask left changes no entry of root/d; and a
\* clearAll that is inside its loop reaches its return.
C32_ClearAllCompletes ==
  /\ [][\A p \in Procs :
          (pc[p] = "c_loop" /\ <<pc'[p], todo'[p]>> # <<pc[p], todo[p]>>)
            => /\ todo'[p] # todo[p] => (pc'[p] = "c_loop" /\ dirDisk' = dirDisk)
               /\ pc'[p] # "c_loop"
                    => /\ pc'[p] = "done" /\ todo[p] = {}
                       /\ dirDisk' \in {dirD, dirDisk} /\ dirD' = dirD
                       /\ result'[p] = NoResult /\ flk'[p] = "none"
               /\ Cleared(p) => dirD' = dirD]_vars
  /\ \A p \in Callers : (pc[p] = "c_loop") ~> (pc[p] = "done" /\ arg[p].op = "clearAll")

\* A clearAll is in its loop on the store that an earlier clearAll of the
\* same process left: the file of CurrentRoute, which that one unlinked, is
\* missing, and the turn for its row is still to come.
C32_Witness ==
  \E p \in Procs :
    /\ pc[p] = "c_loop"
    /\ "CurrentRoute" \in todo[p]
    /\ todo[p] # DOMAIN Rows(p)
    /\ ClearMatches(Rows(p)["CurrentRoute"], arg[p].mask)
    /\ lastMut["CurrentRoute"] = p /\ dirD["CurrentRoute"].t = "none"
    /\ Cleared(p)

\* C33  Category lookup of an unknown name: no call of getKeyType brings the
\* process down, and a call for a name that is not in the table returns the
\* zero mask, every time, so that the name matches no mask of clearAll.
C33_UnknownLookup ==
  /\ \A t \in Threads :
       /\ thr[t].pc # "k_crashed"
       /\ (thr[t].pc = "k_done" /\ thr[t].key \notin DOMAIN keys)
            => /\ thr[t].type = {}
               /\ \A m \in ClearMasks : ~ClearMatches(thr[t].type, m)
  /\ \A p \in Procs :
       (pc[p] = "done" /\ arg[p].op = "getKeyType" /\ arg[p].key \notin DOMAIN keys)
         => /\ result[p].type = {}
            /\ \A m \in ClearMasks : ~ClearMatches(result[p].type, m)

\* C34  Concurrent blocking gets and handler restoration: whenever no
\* blocking get is in progress in the process, each one having restored what
\* it saved, SIGINT and SIGTERM have the handlers the application installed,
\* not params_sig_handler.
C34_HandlersAfterOverlap ==
  (\A t \in Threads : thr[t].pc \in {"idle", "b_done"})
    => /\ sig.int = InitSig.int
       /\ sig.term = InitSig.term

\* C35  Cancellation is not lost: a blocking get that was in its polling loop
\* when params_sig_handler ran on a SIGINT or SIGTERM returns, whatever the
\* other threads of the process do.
C35_CancellationNotLost ==
  \A t \in Threads : bhist[t].waitSig ~> BReturned(t)

\* C36  Cancellation does not carry over: a blocking get starts with
\* params_do_exit cleared, whatever an earlier signal left in it, and leaves
\* its loop without a value only when params_sig_handler ran on a signal
\* delivered during this very get; otherwise it leaves with the non-empty
\* value it read.
C36_NoCarryOver ==
  [][\A t \in Threads :
       /\ (thr[t].pc = "idle" /\ thr'[t].pc # "idle") => sig'.exit = 0
       /\ (thr[t].pc \in WaitPcs /\ thr'[t].pc \notin WaitPcs)
            => \/ thr'[t].value # <<>> /\ thr'[t].value = Visible(thr[t].key)
               \/ thr'[t].value = <<>> /\ sig.exit = 1 /\ bhist[t].flagged]_vars

\* One get was cancelled by a signal and has restored the handlers; a get
\* that started after that, which no signal reached, has polled the missing
\* file and goes on waiting.
C36_Witness ==
  \E t, u \in Threads :
    /\ thr[t].pc = "b_done" /\ thr[t].value = <<>> /\ bhist[t].flagged
    /\ thr[u].pc = "b_test" /\ ~bhist[u].flagged
    /\ bhist[u].before = <<InitSig.int, InitSig.term>>
    /\ <<>> \in bhist[u].polled
    /\ sig.exit = 0 /\ sig.n = 1

\* C37  Temp-file ownership: the unlink with which a put ends removes no temp
\* name that refers to the temp file of another put, and the rename of a put
\* finds the temp file that this put created under its temp name.
C37_TempOwnership ==
  [][\A p \in Procs :
       /\ (pc[p] = "p_close" /\ pc'[p] = "done")
            => \A n \in TmpNames :
                 (rootTmp[n].t = "open" /\ rootTmp[n].p # p) => rootTmp'[n] = rootTmp[n]
       /\ (pc[p] = "p_rename" /\ pc'[p] # "p_rename")
            => /\ rootTmp[tmpPath[p]] = Ref(p)
               /\ result'[p].cause # "rename"]_vars

\* C38  Frame of the single-key mutators: no step of a put or remove, whatever
\* its outcome, changes whether a name other than its own has a file or what
\* that name reads as; and a temp file that is still open is under no name
\* of root/d except, between the rename and the close of its put, under the
\* name of that put.
C38_SingleKeyFrame ==
  [][/\ \A p \in Procs :
          (pc'[p] # pc[p] /\ arg'[p].op \in {"put", "remove"})
            => \A k \in Names \ {arg'[p].key} :
                 /\ Visible(k)' = Visible(k)
                 /\ (dirD'[k].t = "none") <=> (dirD[k].t = "none")
     /\ \A k \in Names, q \in Procs :
          dirD'[k] = Ref(q)
            => (arg'[q].key = k /\ pc'[q] \in {"p_fsyncdir", "p_close"})]_vars

\* C39  No orphans after a bootstrap race: once every process has its store
\* object, root holds no temp directory but the one root/d refers to, and no
\* ".link" symlink.
C39_NoOrphans ==
  AllBooted => (boot.dirs = {boot.d} /\ boot.links = {})

\* C40  Atomicity does not depend on the lock: when the puts run without the
\* lock, a name that has a file reads as the whole payload of one of the
\* puts, at every moment, and a get returns such a payload, or the empty
\* string of a name that had no file.
C40_AtomicWithoutLock ==
  /\ \A k \in Names : dirD[k].t # "none" => Visible(k) \in Payloads
  /\ \A g \in Procs : GetDone(g) => result[g].val \in Payloads \cup {<<>>}
  /\ \A g \in Procs : (GetDone(g) /\ result[g].val = <<>>) => <<>> \in seen[g]

====
